---- MODULE Spec2Model ----
(***************************************************************************)
(* Adaptive transcription orchestration pipeline of STAILY.                *)
(*                                                                         *)
(* orchestrateTranscription is an async function; its state is modelled    *)
(* at its suspension points (every await of an external collaborator).     *)
(* One action is the resolution or the rejection of the pending await,     *)
(* together with all the synchronous code that runs up to the next await   *)
(* or to the return / throw of the function.                               *)
(*                                                                         *)
(* Sequences are 1-based here: index i of the model is index i-1 of the    *)
(* JavaScript arrays.  Probabilities are in percent (0..100), durations    *)
(* in whole seconds, volumes in whole dB.                                  *)
(***************************************************************************)
EXTENDS Integers, Sequences, FiniteSets, TLC

VARIABLES
    audioFile,                  \* what ffmpeg measures on the input file
    options,                    \* the options argument of the run
    pc,                         \* suspension point of orchestrateTranscription
    result,                     \* the OrchestrationResult accumulator
    audioQualityReport,
    workingAudioPath,
    enhancedPath,               \* local of autoEnhance (output of enhanceAudio)
    files,                      \* audio files present on disk
    strategies,
    i,
    transcription,
    transcriptionQualityReport,
    usedStrategy,
    attemptedStrategies,
    error,                      \* the error orchestrateTranscription threw
    trace,                      \* history: external calls issued and settled
    lastReturned,               \* history: the last output of the engine
    response,                   \* what the route sends to its caller
    directReport,               \* qualityReport of a direct call of autoEnhance
    preset,                     \* local of autoEnhance
    cacheDir,                   \* the files of the cache directory
    cacheCalls,                 \* history: the last two calls of the cache
    loaded,                     \* what the last loadCache returned
    now,                        \* the clock
    requests,                   \* the requests to the route, by slot
    started,                    \* how many requests have arrived
    served,                     \* history: the bytes a request succeeded for
    stored                      \* history: the bytes a request has stored

\* the variables of a direct call of an analyzer or of autoEnhance
directVars == << directReport, preset >>

\* the variables of the cache
cacheVars == << cacheDir, cacheCalls, loaded, now >>

\* the variables of the requests to the route
routeVars == << requests, started, served, stored >>

vars == << audioFile, options, pc, result, audioQualityReport,
           workingAudioPath, enhancedPath, files, strategies, i,
           transcription, transcriptionQualityReport, usedStrategy,
           attemptedStrategies, error, trace, lastReturned, response,
           directVars, cacheVars, routeVars >>

\* JavaScript null / undefined
NULL == [null |-> TRUE]

\* the requests that can be in flight together
Slots == {1, 2}

\* a slot without request
NoRequest ==
    [ pc |-> "idle", body |-> NULL, fileHash |-> NULL, calls |-> << >>,
      response |-> NULL, cacheRead |-> "none", hashError |-> FALSE,
      result |-> NULL, put |-> NULL,
      afterSuccess |-> FALSE, afterStore |-> FALSE ]

RouteIdle ==
    /\ requests = [ r \in Slots |-> NoRequest ]
    /\ started = 0
    /\ served = {}
    /\ stored = {}

-----------------------------------------------------------------------------
(* Bounds of the model *)

\* number of segments of a sample engine output that has segments
MaxSegments == 4

\* number of segments of the longest engine output given to a direct call of
\* analyzeTranscriptionQuality
MaxDirectSegments == 10

\* the requests of a behaviour of the route
MaxRequests == 3

-----------------------------------------------------------------------------
(* audioQualityChecker.js *)

MIN_MEAN_VOLUME == -40
MIN_MAX_VOLUME == -20
MAX_SILENCE_PERCENT == 80
MIN_NON_SILENCE_DURATION == 2

\* A run of ffmpeg with an analysis filter, as the callback of execFile sees
\* it: error is set when ffmpeg could not be started or exited with a
\* failure, named tells whether stderr contains the name of the filter, and
\* the other fields are the values of the lines of stderr the regular
\* expressions look for, NULL when stderr has no such line.  A decibel value
\* is [dB |-> n], a duration [seconds |-> n]; silence_duration is the sum of
\* the silence_duration values of the silence_end lines.

\* analyzeAudioVolume rejects only on an error without the filter's name
analyzeAudioVolumeRejects(run) == run.error /\ ~run.named

\* the statistics analyzeAudioVolume resolves with
analyzeAudioVolume(run) ==
    [ meanVolume |-> run.mean_volume,
      maxVolume  |-> run.max_volume ]

analyzeSilenceRejects(run) == run.error /\ ~run.named

\* the statistics analyzeSilence resolves with: totalDuration stays 0 when
\* stderr has no Duration line
analyzeSilence(run) ==
    [ totalDuration        |-> IF run.Duration = NULL THEN 0
                               ELSE run.Duration.seconds,
      totalSilenceDuration |-> run.silence_duration ]

\* silencePercent = totalDuration > 0 ? silence / total * 100 : 0, compared
\* with a percentage p without leaving the integers
SilencePercentAbove(s, p) ==
    /\ s.totalDuration > 0
    /\ s.totalSilenceDuration * 100 > p * s.totalDuration

\* the duration of the file, silence included
nonSilenceDurationWithSilence(s) == s.totalDuration

nonSilenceDuration(s) == s.totalDuration - s.totalSilenceDuration

\* the issues of checkAudioQuality, in the order the rules are evaluated
AudioIssues(a) ==
    (IF a.volume.meanVolume # NULL /\ a.volume.meanVolume.dB < MIN_MEAN_VOLUME
        THEN << [type |-> "LOW_VOLUME", severity |-> "HIGH", deduction |-> 30] >>
        ELSE << >>)
    \o
    (IF a.volume.maxVolume # NULL /\ a.volume.maxVolume.dB < MIN_MAX_VOLUME
        THEN << [type |-> "VERY_LOW_VOLUME", severity |-> "CRITICAL", deduction |-> 40] >>
        ELSE << >>)
    \o
    (IF SilencePercentAbove(a.silence, MAX_SILENCE_PERCENT)
        THEN << [type |-> "TOO_MUCH_SILENCE", severity |-> "HIGH", deduction |-> 25] >>
        ELSE << >>)
    \o
    (IF nonSilenceDuration(a.silence) < MIN_NON_SILENCE_DURATION
        THEN << [type |-> "INSUFFICIENT_CONTENT", severity |-> "CRITICAL", deduction |-> 50] >>
        ELSE << >>)

RECURSIVE SumDeductions(_)
SumDeductions(issues) ==
    IF issues = << >> THEN 0
    ELSE Head(issues).deduction + SumDeductions(Tail(issues))

\* the second argument, whatever the first
MaxUnfloored(a, b) == b

Max(a, b) == IF a >= b THEN a ELSE b

\* the chain with GOOD from 70
QualityLevelFrom70(qualityScore) ==
    IF qualityScore >= 70 THEN "GOOD"
    ELSE IF qualityScore >= 50 THEN "ACCEPTABLE"
    ELSE IF qualityScore >= 30 THEN "POOR"
    ELSE "UNUSABLE"

\* the if / else-if chain that buckets a running score
QualityLevel(qualityScore) ==
    IF qualityScore >= 80 THEN "GOOD"
    ELSE IF qualityScore >= 50 THEN "ACCEPTABLE"
    ELSE IF qualityScore >= 30 THEN "POOR"
    ELSE "UNUSABLE"

\* checkAudioQuality throws what either analysis rejects with
checkAudioQualityRejects(audio) ==
    \/ analyzeAudioVolumeRejects(audio.volumedetect)
    \/ analyzeSilenceRejects(audio.silencedetect)

\* the report of checkAudioQuality; qualityScore below is the running total
\* (which may be negative), the reported score is floored at 0
checkAudioQuality(audio) ==
    LET a == [ volume  |-> analyzeAudioVolume(audio.volumedetect),
               silence |-> analyzeSilence(audio.silencedetect) ]
        issues == AudioIssues(a)
        qualityScore == 100 - SumDeductions(issues)
    IN  [ qualityLevel     |-> QualityLevel(qualityScore),
          qualityScore     |-> Max(0, qualityScore),
          isAcceptable     |-> qualityScore >= 50,
          needsEnhancement |-> qualityScore < 80,
          volume           |-> a.volume,
          silence          |-> a.silence,
          issues           |-> issues ]

\* the two runs of ffmpeg on a file whose output has every line looked for
Measured(mean, max, duration, silence) ==
    [ volumedetect  |-> [ error |-> FALSE, named |-> TRUE,
                          mean_volume |-> [dB |-> mean],
                          max_volume  |-> [dB |-> max] ],
      silencedetect |-> [ error |-> FALSE, named |-> TRUE,
                          Duration |-> [seconds |-> duration],
                          silence_duration |-> silence ] ]

\* The sample input files.  On the measured ones every combination of the
\* four rules occurs, and one has 60 % of silence without any issue.  The
\* others are a good file (-20 dB, -5 dB, 10 s of silence in 100 s) on which
\* ffmpeg could not be started (for both runs, or for the second only), or
\* whose stderr lacks the volume lines, or lacks the Duration line, or on
\* which ffmpeg ended with an error after it had named the filter.
AudioFiles ==
    { Measured(m, p, d[1], d[2]) :
        m \in {-45, -20}, p \in {-25, -5},
        d \in { <<100, 10>>, <<100, 60>>, <<100, 85>>, <<1, 0>>, <<10, 9>> } }
    \cup
    { [ Measured(-20, -5, 100, 10) EXCEPT !.volumedetect = v, !.silencedetect = s ] :
        v \in { [error |-> TRUE, named |-> FALSE, mean_volume |-> NULL, max_volume |-> NULL] },
        s \in { [error |-> TRUE, named |-> FALSE, Duration |-> NULL, silence_duration |-> 0] } }
    \cup
    { [ Measured(-20, -5, 100, 10) EXCEPT !.silencedetect = s ] :
        s \in { [error |-> TRUE, named |-> FALSE, Duration |-> NULL, silence_duration |-> 0],
                [error |-> FALSE, named |-> TRUE, Duration |-> NULL, silence_duration |-> 10] } }
    \cup
    { [ Measured(-20, -5, 100, 10) EXCEPT !.volumedetect = v ] :
        v \in { [error |-> FALSE, named |-> TRUE, mean_volume |-> NULL, max_volume |-> NULL],
                [error |-> TRUE, named |-> TRUE, mean_volume |-> NULL, max_volume |-> [dB |-> -5]] } }

-----------------------------------------------------------------------------
(* transcriptionQualityAnalyzer.js *)

MIN_NON_EMPTY_SEGMENTS_PERCENT == 30
MIN_AVG_TOKENS_PER_SEGMENT == 3
MIN_LANGUAGE_PROBABILITY == 50
MAX_LOW_PROBABILITY_SEGMENTS_PERCENT == 50
LOW_PROBABILITY_THRESHOLD == 30
MIN_TOTAL_CHARACTERS == 10
\* 0.3, in tenths
MIN_UNIQUE_WORDS_RATIO == 3

\* the analysis of a segment that never sees an empty text
analyzeSegmentNeverEmpty(segment) ==
    [ isEmpty          |-> FALSE,
      tokens           |-> segment.tokens,
      probability      |-> segment.probability,
      isLowProbability |-> segment.probability < LOW_PROBABILITY_THRESHOLD ]

\* A segment of the engine output is [tokens, probability]: the number of
\* whitespace-delimited words of its text and its probability field (0 when
\* it has none: segment.probability || 1).  The text is empty after trim()
\* exactly when it has no word.
analyzeSegment(segment) ==
    LET probability == IF segment.probability = 0 THEN 100
                       ELSE segment.probability
    IN  [ isEmpty          |-> segment.tokens = 0,
          tokens           |-> segment.tokens,
          probability      |-> probability,
          isLowProbability |-> probability < LOW_PROBABILITY_THRESHOLD ]

RECURSIVE SumTokens(_)
SumTokens(analyses) ==
    IF analyses = << >> THEN 0
    ELSE Head(analyses).tokens + SumTokens(Tail(analyses))

TranscriptionStatistics(t) ==
    LET segmentAnalyses == [ n \in 1..Len(t.segments) |-> analyzeSegment(t.segments[n]) ]
        totalSegments == Len(t.segments)
        emptySegments == Cardinality({ n \in 1..totalSegments : segmentAnalyses[n].isEmpty })
    IN  [ totalSegments          |-> totalSegments,
          emptySegments          |-> emptySegments,
          nonEmptySegments       |-> totalSegments - emptySegments,
          totalTokens            |-> SumTokens(segmentAnalyses),
          lowProbabilitySegments |->
              Cardinality({ n \in 1..totalSegments : segmentAnalyses[n].isLowProbability }),
          totalCharacters        |-> t.text.characters,
          totalWords             |-> t.text.words,
          uniqueWords            |-> t.text.uniqueWords,
          languageProbability    |-> t.language_probability ]

\* the issues of analyzeTranscriptionQuality, in the order the rules are
\* evaluated; a ratio whose denominator is 0 is 0 in the source
TranscriptionIssues(st) ==
    (IF (IF st.totalSegments > 0
            THEN st.nonEmptySegments * 100 < MIN_NON_EMPTY_SEGMENTS_PERCENT * st.totalSegments
            ELSE 0 < MIN_NON_EMPTY_SEGMENTS_PERCENT)
        THEN << [type |-> "TOO_MANY_EMPTY_SEGMENTS", severity |-> "CRITICAL", deduction |-> 40] >>
        ELSE << >>)
    \o
    (IF (IF st.nonEmptySegments > 0
            THEN st.totalTokens < MIN_AVG_TOKENS_PER_SEGMENT * st.nonEmptySegments
            ELSE 0 < MIN_AVG_TOKENS_PER_SEGMENT)
        THEN << [type |-> "LOW_TOKEN_COUNT", severity |-> "HIGH", deduction |-> 25] >>
        ELSE << >>)
    \o
    (IF st.languageProbability < MIN_LANGUAGE_PROBABILITY
        THEN << [type |-> "LOW_LANGUAGE_CONFIDENCE", severity |-> "HIGH", deduction |-> 20] >>
        ELSE << >>)
    \o
    (IF st.totalSegments > 0
        /\ st.lowProbabilitySegments * 100 > MAX_LOW_PROBABILITY_SEGMENTS_PERCENT * st.totalSegments
        THEN << [type |-> "TOO_MANY_LOW_PROBABILITY_SEGMENTS", severity |-> "HIGH", deduction |-> 20] >>
        ELSE << >>)
    \o
    (IF st.totalCharacters < MIN_TOTAL_CHARACTERS
        THEN << [type |-> "INSUFFICIENT_CONTENT", severity |-> "CRITICAL", deduction |-> 50] >>
        ELSE << >>)
    \o
    (IF (IF st.totalWords > 0
            THEN st.uniqueWords * 10 < MIN_UNIQUE_WORDS_RATIO * st.totalWords
            ELSE 0 < MIN_UNIQUE_WORDS_RATIO)
        /\ st.totalWords > 10
        THEN << [type |-> "EXCESSIVE_REPETITION", severity |-> "MEDIUM", deduction |-> 15] >>
        ELSE << >>)

analyzeTranscriptionQuality(t) ==
    LET statistics == TranscriptionStatistics(t)
        issues == TranscriptionIssues(statistics)
        qualityScore == 100 - SumDeductions(issues)
    IN  [ qualityLevel |-> QualityLevel(qualityScore),
          qualityScore |-> Max(0, qualityScore),
          isAcceptable |-> qualityScore >= 50,
          needsRetry   |-> qualityScore < 70,
          statistics   |-> statistics,
          issues       |-> issues ]

\* A sample output of the recognition engine: of MaxSegments segments the
\* first k have w words each and the others are empty, the first lp have a
\* low probability; the text is the segments joined (four-letter words).
SampleTranscript(k, w, lp, lang, rep) ==
    [ segments |-> [ n \in 1..MaxSegments |->
                       [ tokens      |-> IF n <= k THEN w ELSE 0,
                         probability |-> IF n <= lp THEN 20 ELSE 80 ] ],
      text     |-> [ characters  |-> IF k * w = 0 THEN 0 ELSE 5 * k * w - 1,
                     words       |-> k * w,
                     uniqueWords |-> IF rep THEN 2 ELSE k * w ],
      language_probability |-> lang ]

\* the engine outputs of the model, with their scores: 100, 85 (repetition),
\* 60 (one segment in MaxSegments is not empty), 35 (short segments, low
\* language confidence, low probabilities), 0, and an output without segments
Transcripts ==
    { SampleTranscript(MaxSegments, 4, 0, 90, FALSE),
      SampleTranscript(MaxSegments, 4, 0, 90, TRUE),
      SampleTranscript(1, 4, 0, 90, FALSE),
      SampleTranscript(MaxSegments, 1, MaxSegments, 30, FALSE),
      SampleTranscript(1, 1, MaxSegments, 30, FALSE),
      [ segments |-> << >>,
        text     |-> [characters |-> 0, words |-> 0, uniqueWords |-> 0],
        language_probability |-> 0 ] }

-----------------------------------------------------------------------------
(* audioEnhancer.js *)

\* the preset chosen from the score alone
SelectPresetByScore(qualityReport) ==
    IF qualityReport.qualityScore < 30 THEN "AGGRESSIVE"
    ELSE IF qualityReport.qualityScore < 60 THEN "STANDARD"
    ELSE "LIGHT"

\* the preset autoEnhance selects from the quality report
SelectPreset(qualityReport) ==
    LET issues == qualityReport.issues
        hasCriticalIssues == \E n \in 1..Len(issues) : issues[n].severity = "CRITICAL"
        hasHighIssues == \E n \in 1..Len(issues) : issues[n].severity = "HIGH"
    IN  IF hasCriticalIssues \/ qualityReport.qualityScore < 30 THEN "AGGRESSIVE"
        ELSE IF hasHighIssues \/ qualityReport.qualityScore < 60 THEN "STANDARD"
        ELSE "LIGHT"

\* default output paths of enhanceAudio and removeSilence
EnhancedName(inputPath) == inputPath \o "_enhanced"
NoSilenceName(inputPath) == inputPath \o "_nosilence"

-----------------------------------------------------------------------------
(* whisperOrchestrator: the catalogue *)

\* the catalogue with a positive floor on its last entry
CatalogueWithoutZeroFloor ==
    << [name |-> "TINY_FAST",      modelSize |-> "tiny",     minAudioQuality |-> 70],
       [name |-> "BASE_STANDARD",  modelSize |-> "base",     minAudioQuality |-> 50],
       [name |-> "SMALL_BALANCED", modelSize |-> "small",    minAudioQuality |-> 30],
       [name |-> "MEDIUM_ROBUST",  modelSize |-> "medium",   minAudioQuality |-> 20],
       [name |-> "LARGE_ULTIMATE", modelSize |-> "large-v3", minAudioQuality |-> 10] >>

WHISPER_FALLBACK_STRATEGIES ==
    << [name |-> "TINY_FAST",      modelSize |-> "tiny",     minAudioQuality |-> 70],
       [name |-> "BASE_STANDARD",  modelSize |-> "base",     minAudioQuality |-> 50],
       [name |-> "SMALL_BALANCED", modelSize |-> "small",    minAudioQuality |-> 30],
       [name |-> "MEDIUM_ROBUST",  modelSize |-> "medium",   minAudioQuality |-> 20],
       [name |-> "LARGE_ULTIMATE", modelSize |-> "large-v3", minAudioQuality |-> 0] >>

\* Array.prototype.filter: the elements satisfying Keep, in their order
\* the floor test with a strict comparison
MeetsFloorStrict(audioScore, s) == audioScore > s.minAudioQuality

\* the floor test of the filter callback
MeetsFloor(audioScore, s) == audioScore >= s.minAudioQuality

\* WHISPER_FALLBACK_STRATEGIES.filter(s => audioScore >= s.minAudioQuality):
\* the elements of seq that meet the floor, in their order
RECURSIVE FilterByFloor(_, _)
FilterByFloor(seq, audioScore) ==
    IF seq = << >> THEN << >>
    ELSE (IF MeetsFloor(audioScore, Head(seq)) THEN << Head(seq) >> ELSE << >>)
         \o FilterByFloor(Tail(seq), audioScore)

RECURSIVE Reverse(_)
Reverse(seq) ==
    IF seq = << >> THEN << >> ELSE Append(Reverse(Tail(seq)), Head(seq))

\* the candidate list with the useFallback option ignored
BuildStrategiesIgnoringManual(useFallback, audioScore, modelSize) ==
    LET filtered == FilterByFloor(WHISPER_FALLBACK_STRATEGIES, audioScore)
    IN  IF Len(filtered) = 0 THEN WHISPER_FALLBACK_STRATEGIES ELSE filtered

\* the candidate list with the most robust model first
BuildStrategiesReversed(useFallback, audioScore, modelSize) ==
    IF useFallback
    THEN LET filtered == FilterByFloor(WHISPER_FALLBACK_STRATEGIES, audioScore)
         IN  Reverse(IF Len(filtered) = 0 THEN WHISPER_FALLBACK_STRATEGIES
                     ELSE filtered)
    ELSE << [name |-> "USER_SPECIFIED", modelSize |-> modelSize] >>

\* the candidate list orchestrateTranscription builds
BuildStrategies(useFallback, audioScore, modelSize) ==
    IF useFallback
    THEN LET filtered == FilterByFloor(WHISPER_FALLBACK_STRATEGIES, audioScore)
         IN  IF Len(filtered) = 0 THEN WHISPER_FALLBACK_STRATEGIES ELSE filtered
    ELSE << [name |-> "USER_SPECIFIED", modelSize |-> modelSize] >>

-----------------------------------------------------------------------------
(* whisperOrchestrator: orchestrateTranscription *)

AudioPath == "audio.wav"

ModelSizes == {"base", "large-v3"}

\* openaiApiKey is "" when the caller gives none (falsy, as null is)
OptionSets ==
    [ modelSize        : ModelSizes,
      autoEnhance      : BOOLEAN,
      useFallback      : BOOLEAN,
      useGPTCorrection : BOOLEAN,
      openaiApiKey     : {"", "sk-key"} ]

\* an entry of the history of calls to the external collaborators; arg is
\* the model size of a recognition call and the preset of an enhancement
Event(fn, phase, arg, audio) ==
    [fn |-> fn, phase |-> phase, arg |-> arg, audio |-> audio]

\* isLastStrategy computed one position too early
IsLastStrategyOffByOne(idx, strats) == idx = Len(strats) - 1

\* isLastStrategy = i === strategies.length - 1
IsLastStrategy(idx, strats) == idx = Len(strats)

\* the loop condition with the last index left out
LoopContinuesShort(idx, strats) == idx < Len(strats)

\* the loop condition i < strategies.length
LoopContinues(idx, strats) == idx <= Len(strats)

\* the loop without its break
StopsLoopNever(report) == FALSE

\* the test that ends the loop early
StopsLoop(report) == report.isAcceptable

\* the guard of step 4 without the test of the option
NeedsCorrectionAlways(useGPTCorrection, report) ==
    /\ report # NULL
    /\ ~report.isAcceptable

\* the guard of step 4
NeedsCorrection(useGPTCorrection, report) ==
    /\ useGPTCorrection
    /\ report # NULL
    /\ ~report.isAcceptable

FallbackInfo(attempted, used) ==
    [ strategiesAttempted |-> attempted,
      usedStrategy        |-> IF used = NULL THEN "undefined" ELSE used.name,
      usedModel           |-> IF used = NULL THEN "undefined" ELSE used.modelSize ]

\* step 5 and the return
Finalize(res, tr) ==
    /\ result' = [res EXCEPT !.success = (res.transcription # NULL)]
    /\ pc' = "done"
    /\ trace' = tr

\* the code after the loop up to the next await: the result is filled in and
\* step 4 either awaits formatWithGPT, or is skipped
AfterLoop(res, tx, report, used, attempted, tr) ==
    LET res1 == [res EXCEPT !.transcription = tx,
                            !.transcriptionQuality = report,
                            !.fallback = FallbackInfo(attempted, used)]
    IN  IF NeedsCorrection(options.useGPTCorrection, report)
        THEN IF options.openaiApiKey = ""
             THEN Finalize([res1 EXCEPT !.warnings = Append(@, "GPTKeyMissing")], tr)
             ELSE /\ result' = res1
                  /\ pc' = "formatWithGPT"
                  /\ trace' = Append(tr, Event("formatWithGPT", "call", "", ""))
        ELSE Finalize(res1, tr)

\* the start of iteration idx of the loop, up to the await of transcribeAudio
StartAttempt(strats, idx, attempted, path, tr) ==
    /\ i' = idx
    /\ attemptedStrategies' = Append(attempted, strats[idx].name)
    /\ pc' = "transcribeAudio"
    /\ trace' = Append(tr, Event("transcribeAudio", "call", strats[idx].modelSize, path))

\* step 3 up to the first await: the candidate list is built and the loop
\* entered
EnterLoop(report, res, path, tr) ==
    LET strats == BuildStrategies(options.useFallback, report.qualityScore,
                                  options.modelSize)
    IN  /\ strategies' = strats
        /\ IF ~LoopContinues(1, strats)
           THEN /\ i' = 1
                /\ attemptedStrategies' = << >>
                /\ AfterLoop(res, NULL, NULL, NULL, << >>, tr)
           ELSE /\ StartAttempt(strats, 1, << >>, path, tr)
                /\ result' = res

Init ==
    /\ audioFile \in AudioFiles
    /\ options \in OptionSets
    /\ pc = "checkAudioQuality"
    /\ result = [ success              |-> FALSE,
                  audioQuality         |-> NULL,
                  transcriptionQuality |-> NULL,
                  transcription        |-> NULL,
                  enhancement          |-> NULL,
                  fallback             |-> NULL,
                  gptCorrection        |-> NULL,
                  finalAudioPath       |-> AudioPath,
                  warnings             |-> << >> ]
    /\ audioQualityReport = NULL
    /\ workingAudioPath = AudioPath
    /\ enhancedPath = ""
    /\ files = {AudioPath}
    /\ strategies = << >>
    /\ i = 1
    /\ transcription = NULL
    /\ transcriptionQualityReport = NULL
    /\ usedStrategy = NULL
    /\ attemptedStrategies = << >>
    /\ error = NULL
    /\ trace = << Event("checkAudioQuality", "call", "", AudioPath) >>
    /\ lastReturned = NULL
    /\ response = NULL
    /\ directReport = NULL
    /\ preset = ""
    /\ cacheDir = << >>
    /\ cacheCalls = << >>
    /\ loaded = NULL
    /\ now = 0
    /\ RouteIdle

\* the outer catch: success is reset and the error rethrown
Fail(err, tr) ==
    /\ result' = [result EXCEPT !.success = FALSE]
    /\ error' = [message |-> err]
    /\ pc' = "failed"
    /\ trace' = tr

(* step 1 *)
CheckAudioQualityThrows ==
    /\ pc = "checkAudioQuality"
    /\ checkAudioQualityRejects(audioFile)
    /\ UNCHANGED << response, directVars, cacheVars, routeVars >>
    /\ Fail("AnalysisFailure",
            Append(trace, Event("checkAudioQuality", "throw", "", AudioPath)))
    /\ UNCHANGED << audioFile, options, audioQualityReport, workingAudioPath,
                    enhancedPath, files, strategies, i, transcription,
                    transcriptionQualityReport, usedStrategy, attemptedStrategies, lastReturned >>

CheckAudioQualityReturns ==
    /\ pc = "checkAudioQuality"
    /\ ~checkAudioQualityRejects(audioFile)
    /\ UNCHANGED << response, directVars, cacheVars, routeVars >>
    /\ LET report == checkAudioQuality(audioFile)
           res == [result EXCEPT !.audioQuality = report]
           tr == Append(trace, Event("checkAudioQuality", "return", "", AudioPath))
       IN  /\ audioQualityReport' = report
           /\ workingAudioPath' = AudioPath
           /\ IF options.autoEnhance /\ report.needsEnhancement
              THEN \* autoEnhance runs up to its await of enhanceAudio
                   /\ pc' = "enhanceAudio"
                   /\ result' = res
                   /\ trace' = Append(tr, Event("enhanceAudio", "call",
                                                SelectPreset(report), AudioPath))
                   /\ UNCHANGED << strategies, i, attemptedStrategies >>
              ELSE EnterLoop(report, res, AudioPath, tr)
    /\ UNCHANGED << audioFile, options, enhancedPath, files, transcription,
                    transcriptionQualityReport, usedStrategy, error, lastReturned >>

(* step 2: autoEnhance, awaited inside its own try / catch *)

\* autoEnhance returned finalPath: the enhancement is recorded and step 3
\* starts on the enhanced audio
EnhancementDone(finalPath, tr) ==
    LET res == [result EXCEPT
                  !.enhancement = [ enhancedPath |-> finalPath,
                                    preset |-> SelectPreset(audioQualityReport),
                                    originalQualityScore |->
                                        audioQualityReport.qualityScore ],
                  !.finalAudioPath = finalPath,
                  !.warnings = Append(@, "AudioEnhanced")]
    IN  /\ workingAudioPath' = finalPath
        /\ EnterLoop(audioQualityReport, res, finalPath, tr)

\* enhanceAudio resolves: the enhanced file exists; the silence removal is
\* awaited when the silence percentage exceeds 50
EnhanceAudioReturns ==
    /\ pc = "enhanceAudio"
    /\ UNCHANGED << response, directVars, cacheVars, routeVars >>
    /\ LET out == EnhancedName(AudioPath)
           tr == Append(trace, Event("enhanceAudio", "return", "", out))
       IN  /\ enhancedPath' = out
           /\ files' = files \cup {out}
           /\ IF SilencePercentAbove(audioQualityReport.silence, 50)
              THEN /\ pc' = "removeSilence"
                   /\ trace' = Append(tr, Event("removeSilence", "call", "", out))
                   /\ UNCHANGED << result, workingAudioPath, strategies, i,
                                   attemptedStrategies >>
              ELSE EnhancementDone(out, tr)
    /\ UNCHANGED << audioFile, options, audioQualityReport, transcription,
                    transcriptionQualityReport, usedStrategy, error, lastReturned >>

\* enhanceAudio rejects and the rejection reaches the outer catch
EnhanceAudioThrowsFatal ==
    /\ pc = "enhanceAudio"
    /\ UNCHANGED << response, directVars, cacheVars, routeVars >>
    /\ Fail("EnhancementFailure",
            Append(trace, Event("enhanceAudio", "throw", "", AudioPath)))
    /\ UNCHANGED << audioFile, options, audioQualityReport, workingAudioPath,
                    enhancedPath, files, strategies, i, transcription,
                    transcriptionQualityReport, usedStrategy,
                    attemptedStrategies, lastReturned >>

\* enhanceAudio rejects, autoEnhance rejects with it, and the orchestrator
\* catches: a warning, and step 3 starts on the original audio
EnhanceAudioThrows ==
    /\ pc = "enhanceAudio"
    /\ UNCHANGED << response, directVars, cacheVars, routeVars >>
    /\ EnterLoop(audioQualityReport,
                 [result EXCEPT !.warnings = Append(@, "EnhancementFailed")],
                 workingAudioPath,
                 Append(trace, Event("enhanceAudio", "throw", "", AudioPath)))
    /\ UNCHANGED << audioFile, options, audioQualityReport, workingAudioPath,
                    enhancedPath, files, transcription,
                    transcriptionQualityReport, usedStrategy, error, lastReturned >>

\* removeSilence resolves and the intermediate file is left in place
RemoveSilenceReturnsKeepsFile ==
    /\ pc = "removeSilence"
    /\ UNCHANGED << response, directVars, cacheVars, routeVars >>
    /\ LET finalPath == NoSilenceName(enhancedPath)
       IN  /\ files' = files \cup {finalPath}
           /\ EnhancementDone(finalPath,
                  Append(trace, Event("removeSilence", "return", "", finalPath)))
    /\ UNCHANGED << audioFile, options, audioQualityReport, enhancedPath,
                    transcription, transcriptionQualityReport, usedStrategy,
                    error, lastReturned >>

\* removeSilence resolves: the intermediate file is unlinked
RemoveSilenceReturns ==
    /\ pc = "removeSilence"
    /\ UNCHANGED << response, directVars, cacheVars, routeVars >>
    /\ LET finalPath == NoSilenceName(enhancedPath)
       IN  /\ files' = (files \cup {finalPath}) \ {enhancedPath}
           /\ EnhancementDone(finalPath,
                  Append(trace, Event("removeSilence", "return", "", finalPath)))
    /\ UNCHANGED << audioFile, options, audioQualityReport, enhancedPath,
                    transcription, transcriptionQualityReport, usedStrategy,
                    error, lastReturned >>

\* removeSilence rejects: autoEnhance keeps the untrimmed file
RemoveSilenceThrows ==
    /\ pc = "removeSilence"
    /\ UNCHANGED << response, directVars, cacheVars, routeVars >>
    /\ EnhancementDone(enhancedPath,
           Append(trace, Event("removeSilence", "throw", "", enhancedPath)))
    /\ UNCHANGED << audioFile, options, audioQualityReport, enhancedPath,
                    files, transcription, transcriptionQualityReport,
                    usedStrategy, error, lastReturned >>

(* step 3: one iteration of the loop per settled transcribeAudio *)

\* transcribeAudio resolves with t, which is scored at once
TranscribeAudioReturns(t) ==
    /\ pc = "transcribeAudio"
    /\ UNCHANGED << response, directVars, cacheVars, routeVars >>
    /\ LET strategy == strategies[i]
           report == analyzeTranscriptionQuality(t)
           tr == Append(trace, Event("transcribeAudio", "return",
                                     strategy.modelSize, workingAudioPath))
       IN  /\ transcription' = t
           /\ transcriptionQualityReport' = report
           /\ lastReturned' = [tier |-> i, transcription |-> t]
           /\ IF StopsLoop(report)
              THEN \* break
                   /\ usedStrategy' = strategy
                   /\ AfterLoop(result, t, report, strategy,
                                attemptedStrategies, tr)
                   /\ UNCHANGED << i, attemptedStrategies >>
              ELSE LET used == IF IsLastStrategy(i, strategies)
                               THEN strategy   \* kept anyway
                               ELSE usedStrategy
                   IN  /\ usedStrategy' = used
                       /\ IF LoopContinues(i + 1, strategies)
                          THEN /\ StartAttempt(strategies, i + 1,
                                               attemptedStrategies,
                                               workingAudioPath, tr)
                               /\ UNCHANGED result
                          ELSE /\ AfterLoop(result, t, report, used,
                                            attemptedStrategies, tr)
                               /\ i' = i + 1
                               /\ UNCHANGED attemptedStrategies
    /\ UNCHANGED << audioFile, options, audioQualityReport, workingAudioPath,
                    enhancedPath, files, strategies, error >>

\* transcribeAudio rejects: rethrown from the last strategy, otherwise the
\* next strategy is tried
TranscribeAudioThrows ==
    /\ pc = "transcribeAudio"
    /\ UNCHANGED << response, directVars, cacheVars, routeVars >>
    /\ LET tr == Append(trace, Event("transcribeAudio", "throw",
                                     strategies[i].modelSize, workingAudioPath))
       IN  IF IsLastStrategy(i, strategies)
           THEN /\ Fail("RecognitionFailure", tr)
                /\ UNCHANGED << i, attemptedStrategies >>
           ELSE IF LoopContinues(i + 1, strategies)
           THEN /\ StartAttempt(strategies, i + 1, attemptedStrategies,
                                workingAudioPath, tr)
                /\ UNCHANGED << result, error >>
           ELSE /\ AfterLoop(result, transcription, transcriptionQualityReport,
                             usedStrategy, attemptedStrategies, tr)
                /\ i' = i + 1
                /\ UNCHANGED << attemptedStrategies, error >>
    /\ UNCHANGED << audioFile, options, audioQualityReport, workingAudioPath,
                    enhancedPath, files, strategies, transcription,
                    transcriptionQualityReport, usedStrategy, lastReturned >>

(* step 4: formatWithGPT, awaited inside its own try / catch *)

FormatWithGPTReturns ==
    /\ pc = "formatWithGPT"
    /\ UNCHANGED << response, directVars, cacheVars, routeVars >>
    /\ Finalize([result EXCEPT !.gptCorrection = [summary |-> "summary"],
                               !.warnings = Append(@, "GPTCorrected")],
                Append(trace, Event("formatWithGPT", "return", "", "")))
    /\ UNCHANGED << audioFile, options, audioQualityReport, workingAudioPath,
                    enhancedPath, files, strategies, i, transcription,
                    transcriptionQualityReport, usedStrategy,
                    attemptedStrategies, error, lastReturned >>

\* formatWithGPT rejects and nothing catches it before the outer catch
FormatWithGPTThrowsUncaught ==
    /\ pc = "formatWithGPT"
    /\ UNCHANGED << response, directVars, cacheVars, routeVars >>
    /\ Fail("CorrectionFailure",
            Append(trace, Event("formatWithGPT", "throw", "", "")))
    /\ UNCHANGED << audioFile, options, audioQualityReport, workingAudioPath,
                    enhancedPath, files, strategies, i, transcription,
                    transcriptionQualityReport, usedStrategy,
                    attemptedStrategies, lastReturned >>

FormatWithGPTThrows ==
    /\ pc = "formatWithGPT"
    /\ UNCHANGED << response, directVars, cacheVars, routeVars >>
    /\ Finalize([result EXCEPT !.warnings = Append(@, "GPTCorrectionFailed")],
                Append(trace, Event("formatWithGPT", "throw", "", "")))
    /\ UNCHANGED << audioFile, options, audioQualityReport, workingAudioPath,
                    enhancedPath, files, strategies, i, transcription,
                    transcriptionQualityReport, usedStrategy,
                    attemptedStrategies, error, lastReturned >>

(* routes/transcribe-robust.js: the handler after its await of
   orchestrateTranscription, for a request made with useCache = false (the
   cache is not consulted and nothing is saved); the cleaning rules and the
   subtitle file do not appear in the responses of the model *)

\* the run returned: the response of the success path, or the 500 response
\* kept for a result without transcription
RouteResponds ==
    /\ pc = "done"
    /\ response = NULL
    /\ response' =
          IF ~result.success \/ result.transcription = NULL
          THEN [ status       |-> 500,
                 success      |-> FALSE,
                 error        |-> "TranscriptionFailed",
                 audioQuality |-> result.audioQuality,
                 warnings     |-> result.warnings ]
          ELSE [ status    |-> 200,
                 success   |-> TRUE,
                 fromCache |-> FALSE,
                 quality   |->
                   [ audio |->
                       [ level  |-> result.audioQuality.qualityLevel,
                         score  |-> result.audioQuality.qualityScore,
                         issues |-> result.audioQuality.issues ],
                     transcription |->
                       [ level  |-> result.transcriptionQuality.qualityLevel,
                         score  |-> result.transcriptionQuality.qualityScore,
                         issues |-> result.transcriptionQuality.issues ] ],
                 enhancement |->
                   IF result.enhancement # NULL
                   THEN [ applied |-> TRUE,
                          preset  |-> result.enhancement.preset,
                          originalQualityScore |->
                              result.enhancement.originalQualityScore ]
                   ELSE [ applied |-> FALSE ],
                 fallback |-> result.fallback,
                 raw      |-> result.transcription,
                 warnings |-> result.warnings ]
    /\ UNCHANGED << audioFile, options, pc, result, audioQualityReport,
                    workingAudioPath, enhancedPath, files, strategies, i,
                    transcription, transcriptionQualityReport, usedStrategy,
                    attemptedStrategies, error, trace, lastReturned,
                    directVars, cacheVars, routeVars >>

\* the run threw: the catch of the handler answers with the message of the
\* error it caught
RouteCatches ==
    /\ pc = "failed"
    /\ response = NULL
    /\ response' = [ status  |-> 500,
                     success |-> FALSE,
                     error   |-> "PipelineError",
                     details |-> error.message ]
    /\ UNCHANGED << audioFile, options, pc, result, audioQualityReport,
                    workingAudioPath, enhancedPath, files, strategies, i,
                    transcription, transcriptionQualityReport, usedStrategy,
                    attemptedStrategies, error, trace, lastReturned,
                    directVars, cacheVars, routeVars >>

Next ==
    \/ CheckAudioQualityReturns
    \/ CheckAudioQualityThrows
    \/ EnhanceAudioReturns
    \/ EnhanceAudioThrows
    \/ RemoveSilenceReturns
    \/ RemoveSilenceThrows
    \/ \E t \in Transcripts : TranscribeAudioReturns(t)
    \/ TranscribeAudioThrows
    \/ FormatWithGPTReturns
    \/ FormatWithGPTThrows
    \/ RouteResponds
    \/ RouteCatches

Spec == Init /\ [][Next]_vars

-----------------------------------------------------------------------------
(* Direct calls of the exported functions checkAudioQuality,
   analyzeTranscriptionQuality and autoEnhance: a behaviour is one call, on
   an argument drawn from the sets below.  autoEnhance is followed up to its
   await of enhanceAudio. *)

\* the files checkAudioQuality is called on: measurements on both sides of
\* every threshold, and the files of AudioFiles it returns a report for
DirectAudioFiles ==
    { Measured(m, p, d[1], d[2]) :
        m \in {-45, -41, -40, -20}, p \in {-25, -21, -20, -5},
        d \in { <<100, 10>>, <<100, 60>>, <<100, 80>>, <<100, 81>>, <<100, 99>>,
                <<1, 0>>, <<2, 0>>, <<10, 8>>, <<10, 9>>, <<0, 0>> } }
    \cup { f \in AudioFiles : ~checkAudioQualityRejects(f) }

\* the texts of the engine outputs: the length of the text, its number of
\* words and of distinct words (w words take at least 2 w - 1 characters)
DirectTexts ==
    { [characters |-> 0,  words |-> 0,  uniqueWords |-> 0],
      [characters |-> 9,  words |-> 2,  uniqueWords |-> 2],
      [characters |-> 10, words |-> 2,  uniqueWords |-> 1],
      [characters |-> 50, words |-> 10, uniqueWords |-> 2],
      [characters |-> 54, words |-> 11, uniqueWords |-> 3],
      [characters |-> 60, words |-> 20, uniqueWords |-> 6],
      [characters |-> 60, words |-> 12, uniqueWords |-> 12] }

\* An engine output of n segments: the first k have w words each and the
\* others are empty, the first lp have the probability low and the others 80.
DirectTranscript(n, k, w, lp, low, text, lang) ==
    [ segments |-> [ m \in 1..n |->
                       [ tokens      |-> IF m <= k THEN w ELSE 0,
                         probability |-> IF m <= lp THEN low ELSE 80 ] ],
      text     |-> text,
      language_probability |-> lang ]

\* the outputs analyzeTranscriptionQuality is called on
DirectTranscripts ==
    UNION { { DirectTranscript(n, k, w, lp[1], lp[2], text, lang) :
                k \in {0, 1, 2, 3, n \div 2, n},
                w \in {2, 3},
                lp \in { <<0, 20>>, <<n \div 2, 29>>, <<n \div 2 + 1, 20>>,
                         <<n, 30>>, <<n, 0>> },
                text \in DirectTexts,
                lang \in {0, 49, 50, 90} } :
            n \in 0..MaxDirectSegments }

\* the reports autoEnhance is called with: those checkAudioQuality builds,
\* and reports of any score with issues of any severity
DirectReports ==
    { checkAudioQuality(f) : f \in { g \in AudioFiles : ~checkAudioQualityRejects(g) } }
    \cup
    { [ qualityScore |-> score,
        issues       |-> [ m \in 1..Len(sev) |->
                             [type |-> "ISSUE", severity |-> sev[m], deduction |-> 0] ],
        silence      |-> [totalDuration |-> 100, totalSilenceDuration |-> 10] ] :
        score \in {0, 29, 30, 59, 60, 100},
        sev \in { << >>, <<"MEDIUM">>, <<"HIGH">>, <<"CRITICAL">>,
                  <<"MEDIUM", "HIGH">>, <<"HIGH", "CRITICAL">>, <<"LOW", "MEDIUM">> } }

\* the variables of the orchestrator, the route and the cache, which a
\* direct call does not use
DirectIdle ==
    /\ options = NULL
    /\ result = NULL
    /\ workingAudioPath = AudioPath
    /\ enhancedPath = ""
    /\ files = {AudioPath}
    /\ strategies = << >>
    /\ i = 1
    /\ usedStrategy = NULL
    /\ attemptedStrategies = << >>
    /\ error = NULL
    /\ trace = << >>
    /\ lastReturned = NULL
    /\ response = NULL
    /\ cacheDir = << >>
    /\ cacheCalls = << >>
    /\ loaded = NULL
    /\ now = 0
    /\ RouteIdle

DirectInit ==
    /\ \/ /\ pc = "checkAudioQuality"
          /\ audioFile \in DirectAudioFiles
          /\ transcription = NULL
          /\ directReport = NULL
       \/ /\ pc = "analyzeTranscriptionQuality"
          /\ audioFile = NULL
          /\ transcription \in DirectTranscripts
          /\ directReport = NULL
       \/ /\ pc = "autoEnhance"
          /\ audioFile = NULL
          /\ transcription = NULL
          /\ directReport \in DirectReports
    /\ audioQualityReport = NULL
    /\ transcriptionQualityReport = NULL
    /\ preset = ""
    /\ DirectIdle

DirectUnchanged ==
    UNCHANGED << audioFile, options, result, workingAudioPath, enhancedPath,
                 files, strategies, i, transcription, usedStrategy,
                 attemptedStrategies, error, trace, lastReturned, response,
                 directReport, cacheVars, routeVars >>

\* checkAudioQuality(audioPath) returns its report
DirectCheckAudioQuality ==
    /\ pc = "checkAudioQuality"
    /\ audioQualityReport' = checkAudioQuality(audioFile)
    /\ pc' = "returned"
    /\ UNCHANGED << transcriptionQualityReport, preset >>
    /\ DirectUnchanged

\* analyzeTranscriptionQuality(transcription) returns its report
DirectAnalyzeTranscriptionQuality ==
    /\ pc = "analyzeTranscriptionQuality"
    /\ transcriptionQualityReport' = analyzeTranscriptionQuality(transcription)
    /\ pc' = "returned"
    /\ UNCHANGED << audioQualityReport, preset >>
    /\ DirectUnchanged

\* autoEnhance(inputPath, qualityReport) selects its preset and awaits
\* enhanceAudio
DirectAutoEnhance ==
    /\ pc = "autoEnhance"
    /\ preset' = SelectPreset(directReport)
    /\ pc' = "enhanceAudio"
    /\ UNCHANGED << audioQualityReport, transcriptionQualityReport >>
    /\ DirectUnchanged

DirectNext ==
    \/ DirectCheckAudioQuality
    \/ DirectAnalyzeTranscriptionQuality
    \/ DirectAutoEnhance

DirectSpec == DirectInit /\ [][DirectNext]_vars

-----------------------------------------------------------------------------
(* cacheManager.js: a behaviour is a sequence of cacheCalls of the exported
   functions on the cache directory, which at first is empty or holds the
   payload file that an interrupted write has left truncated.

   A JavaScript object with string properties is a function from its keys
   to their values, {} being the empty function.  The content of a file is
   [text |-> s], s being the sequence of the tokens of the text; the text
   of a JSON file lists the keys of the object, each followed by its value. *)

\* { ...a, ...b }: the properties of b override those of a
Spread(a, b) == b @@ a

\* the tokens of the properties keys of object, in some fixed order
RECURSIVE Properties(_, _)
Properties(object, keys) ==
    IF keys = {} THEN << >>
    ELSE LET k == CHOOSE x \in keys : TRUE
         IN  << k, object[k] >> \o Properties(object, keys \ {k})

\* JSON.stringify(object, null, 2)
JSONstringify(object) == [text |-> Properties(object, DOMAIN object)]

\* JSON.parse throws on a text that is not the text of an object
JSONparseThrows(content) == Len(content.text) % 2 = 1

\* JSON.parse(content): of a key that occurs twice the last value counts
JSONparse(content) ==
    LET t == content.text
        pairs == 1..(Len(t) \div 2)
    IN  [ k \in { t[2 * n - 1] : n \in pairs } |->
            t[2 * (CHOOSE n \in pairs :
                      /\ t[2 * n - 1] = k
                      /\ \A m \in pairs : t[2 * m - 1] = k => m <= n)] ]

\* new Date().toISOString()
toISOString(time) == "day" \o ToString(time)

\* one payload file for the whole directory
jsonPathOfDirectory(hash) == "cache.json"

jsonPath(hash) == hash \o ".json"
srtPath(hash) == hash \o ".srt"
metaPath(hash) == hash \o ".meta.json"

existsSync(dir, path) == path \in DOMAIN dir

writeFileSyncOnce(dir, path, content) == dir @@ (path :> content)

\* the directory after fs.writeFileSync(path, content)
writeFileSync(dir, path, content) == (path :> content) @@ dir

\* fs.unlinkSync(path)
unlinkSync(dir, path) == [ p \in DOMAIN dir \ {path} |-> dir[p] ]

\* the file whose writeFileSync throws during a saveCache, by its suffix;
\* the empty suffix: every write succeeds
WriteFaults == {"", ".json", ".srt", ".meta.json"}

isCachedNever(dir, hash) == FALSE

\* isCached(hash)
isCached(dir, hash) == existsSync(dir, jsonPath(hash))

\* saveCache(hash, transcriptionData, srtContent, metadata) at the given
\* time: the payload, the subtitles if there are any, and the metadata are
\* written one after the other; a write that throws ends the call, the
\* files written before it stay
saveCache(dir, time, hash, transcriptionData, srtContent, metadata, fault) ==
    LET withJson == writeFileSync(dir, jsonPath(hash),
                                  JSONstringify(transcriptionData))
        hasSrt == srtContent # NULL /\ srtContent.text # << >>
        withSrt == IF hasSrt
                   THEN writeFileSync(withJson, srtPath(hash), srtContent)
                   ELSE withJson
        meta == Spread([hash |-> hash, createdAt |-> toISOString(time)], metadata)
    IN  IF fault = ".json" THEN [ dir |-> dir, threw |-> TRUE ]
        ELSE IF hasSrt /\ fault = ".srt" THEN [ dir |-> withJson, threw |-> TRUE ]
        ELSE IF fault = ".meta.json" THEN [ dir |-> withSrt, threw |-> TRUE ]
        ELSE [ dir   |-> writeFileSync(withSrt, metaPath(hash), JSONstringify(meta)),
               threw |-> FALSE ]

loadCacheUnparsed(dir, hash) ==
    IF ~existsSync(dir, jsonPath(hash)) THEN NULL
    ELSE [ transcription |-> IF JSONparseThrows(dir[jsonPath(hash)])
                             THEN << >>
                             ELSE JSONparse(dir[jsonPath(hash)]),
           srt           |-> NULL,
           metadata      |-> << >> ]

loadCacheAllOrNull(dir, hash) ==
    IF /\ existsSync(dir, jsonPath(hash))
       /\ existsSync(dir, srtPath(hash))
       /\ existsSync(dir, metaPath(hash))
    THEN [ transcription |-> JSONparse(dir[jsonPath(hash)]),
           srt           |-> dir[srtPath(hash)],
           metadata      |-> JSONparse(dir[metaPath(hash)]) ]
    ELSE NULL

\* loadCache(hash): null without payload file or when a file cannot be
\* parsed, otherwise the payload, the subtitles if their file exists, and
\* the metadata if their file exists
loadCache(dir, hash) ==
    IF ~existsSync(dir, jsonPath(hash)) THEN NULL
    ELSE IF JSONparseThrows(dir[jsonPath(hash)]) THEN NULL
    ELSE IF /\ existsSync(dir, metaPath(hash))
            /\ JSONparseThrows(dir[metaPath(hash)]) THEN NULL
    ELSE [ transcription |-> JSONparse(dir[jsonPath(hash)]),
           srt           |-> IF existsSync(dir, srtPath(hash))
                             THEN dir[srtPath(hash)]
                             ELSE NULL,
           metadata      |-> IF existsSync(dir, metaPath(hash))
                             THEN JSONparse(dir[metaPath(hash)])
                             ELSE << >> ]

\* deleteCache(hash): the three files are removed where they exist; the
\* call returns whether the payload file existed
deleteCache(dir, hash) ==
    LET withoutJson == unlinkSync(dir, jsonPath(hash))
        withoutSrt == unlinkSync(withoutJson, srtPath(hash))
    IN  [ dir      |-> unlinkSync(withoutSrt, metaPath(hash)),
          returned |-> existsSync(dir, jsonPath(hash)) ]

\* the arguments of the calls of the model
Fingerprints == {"fp1", "fp2"}

\* fs.readdirSync(CACHE_DIR) filtered by '.meta.json', each name with the
\* suffix removed
metaFiles(dir) ==
    SelectSeq(<< "fp1", "fp2" >>, LAMBDA hash : existsSync(dir, metaPath(hash)))

\* new Date(createdAt) of a time written by toISOString
Date(createdAt) == CHOOSE time \in 0..now : toISOString(time) = createdAt

\* caches.sort((a, b) => new Date(b.createdAt) - new Date(a.createdAt)),
\* one element after the other: the sort is stable
RECURSIVE sortNewestFirst(_)
sortNewestFirst(caches) ==
    IF caches = << >> THEN << >>
    ELSE LET last == caches[Len(caches)]
             sorted == sortNewestFirst(SubSeq(caches, 1, Len(caches) - 1))
             before == SelectSeq(sorted, LAMBDA c : Date(c.createdAt) >= Date(last.createdAt))
             after == SelectSeq(sorted, LAMBDA c : Date(c.createdAt) < Date(last.createdAt))
         IN  before \o << last >> \o after

\* listCaches(): one element { hash, ...metadata } per metadata file,
\* the newest first
listCaches(dir) ==
    LET hashes == metaFiles(dir)
    IN  sortNewestFirst([ n \in 1..Len(hashes) |->
            Spread([hash |-> hashes[n]], JSONparse(dir[metaPath(hashes[n])])) ])

\* listCaches() throws when JSON.parse throws on a metadata file
listCachesThrows(dir) ==
    \E n \in 1..Len(metaFiles(dir)) :
       JSONparseThrows(dir[metaPath(metaFiles(dir)[n])])

\* the forEach of cleanOldCaches on the rest of the list: an element older
\* than maxAgeDays has deleteCache called on its hash and is counted
RECURSIVE forEachCache(_, _, _, _, _)
forEachCache(caches, dir, time, maxAgeDays, deletedCount) ==
    IF caches = << >>
    THEN [ dir |-> dir, threw |-> FALSE, returned |-> deletedCount ]
    ELSE LET cache == Head(caches)
             ageDays == time - Date(cache.createdAt)
         IN  IF ageDays > maxAgeDays
             THEN forEachCache(Tail(caches), deleteCache(dir, cache.hash).dir,
                               time, maxAgeDays, deletedCount + 1)
             ELSE forEachCache(Tail(caches), dir, time, maxAgeDays, deletedCount)

\* cleanOldCaches(maxAgeDays = 30) at the given time, in days; maxAgeDays is
\* NULL when the argument is left out
cleanOldCaches(dir, time, maxAgeDays) ==
    IF listCachesThrows(dir)
    THEN [ dir |-> dir, threw |-> TRUE, returned |-> 0 ]
    ELSE forEachCache(listCaches(dir), dir, time,
                      IF maxAgeDays = NULL THEN 30 ELSE maxAgeDays.days, 0)

\* transcriptionData and srtContent: a payload saved with its subtitles,
\* and one saved without (srtContent = null)
Transcriptions ==
    { << [text |-> "bonjour"], [text |-> << "1", "bonjour" >>] >>,
      << [text |-> "hello", userMessage |-> "ok"], NULL >> }

\* metadata: none, that of the route, and one with a hash of its own
Metadatas ==
    { << >>,
      [modelSize |-> "base", processingTime |-> "12s"],
      [modelSize |-> "base", hash |-> "fp2"] }

\* the calls of saveCache of the model: every payload with every metadata,
\* and the payload with subtitles and the metadata of the route with a
\* write that throws
Puts ==
    { put \in [ data : Transcriptions, metadata : Metadatas, fault : WriteFaults ] :
         put.fault # ""
            => /\ put.data[2] # NULL
               /\ "processingTime" \in DOMAIN put.metadata }

\* the last two calls, the most recent last
Called(call) == IF cacheCalls = << >> THEN << call >> ELSE << cacheCalls[Len(cacheCalls)], call >>

\* the variables of the orchestrator and of the route, which the cache
\* does not use
CacheIdle ==
    /\ audioFile = NULL
    /\ options = NULL
    /\ pc = "cache"
    /\ result = NULL
    /\ audioQualityReport = NULL
    /\ workingAudioPath = AudioPath
    /\ enhancedPath = ""
    /\ files = {AudioPath}
    /\ strategies = << >>
    /\ i = 1
    /\ transcription = NULL
    /\ transcriptionQualityReport = NULL
    /\ usedStrategy = NULL
    /\ attemptedStrategies = << >>
    /\ error = NULL
    /\ trace = << >>
    /\ lastReturned = NULL
    /\ response = NULL
    /\ directReport = NULL
    /\ preset = ""

\* the text of a JSON file whose end is missing
Truncated == [text |-> << "text" >>]

\* the cache directory when the process starts
CacheDirs == { << >>, jsonPath("fp1") :> Truncated }

CacheInit ==
    /\ cacheDir \in CacheDirs
    /\ cacheCalls = << >>
    /\ loaded = NULL
    /\ now = 0
    /\ CacheIdle
    /\ RouteIdle

CacheUnchanged ==
    UNCHANGED << audioFile, options, pc, result, audioQualityReport,
                 workingAudioPath, enhancedPath, files, strategies, i,
                 transcription, transcriptionQualityReport, usedStrategy,
                 attemptedStrategies, error, trace, lastReturned, response,
                 directVars >>

\* a call of isCached(hash)
IsCached(hash) ==
    /\ UNCHANGED routeVars
    /\ cacheCalls' = Called([ op |-> "isCached", hash |-> hash,
                              returned |-> isCached(cacheDir, hash) ])
    /\ loaded' = NULL
    /\ UNCHANGED << cacheDir, now >>
    /\ CacheUnchanged

\* a call of saveCache(hash, transcriptionData, srtContent, metadata)
SaveCache(hash, transcriptionData, srtContent, metadata, fault) ==
    LET saved == saveCache(cacheDir, now, hash, transcriptionData,
                           srtContent, metadata, fault)
    IN  /\ UNCHANGED routeVars
        /\ cacheDir' = saved.dir
        /\ cacheCalls' = Called([ op |-> "saveCache", hash |-> hash,
                                  transcriptionData |-> transcriptionData,
                                  srtContent |-> srtContent,
                                  metadata |-> metadata,
                                  fault |-> fault,
                                  threw |-> saved.threw ])
        /\ loaded' = NULL
        /\ UNCHANGED now
        /\ CacheUnchanged

\* a call of loadCache(hash); loaded is what the last call returned when
\* it was a call of loadCache
LoadCache(hash) ==
    /\ UNCHANGED routeVars
    /\ loaded' = loadCache(cacheDir, hash)
    /\ cacheCalls' = Called([op |-> "loadCache", hash |-> hash])
    /\ UNCHANGED << cacheDir, now >>
    /\ CacheUnchanged

\* a call of deleteCache(hash)
DeleteCache(hash) ==
    LET deleted == deleteCache(cacheDir, hash)
    IN  /\ UNCHANGED routeVars
        /\ cacheDir' = deleted.dir
        /\ cacheCalls' = Called([ op |-> "deleteCache", hash |-> hash,
                                  returned |-> deleted.returned ])
        /\ loaded' = NULL
        /\ UNCHANGED now
        /\ CacheUnchanged

CacheNext ==
    \/ \E hash \in Fingerprints : IsCached(hash)
    \/ \E hash \in Fingerprints, put \in Puts :
          SaveCache(hash, put.data[1], put.data[2], put.metadata, put.fault)
    \/ \E hash \in Fingerprints : LoadCache(hash)
    \/ \E hash \in Fingerprints : DeleteCache(hash)

CacheSpec == CacheInit /\ [][CacheNext]_vars

-----------------------------------------------------------------------------
(* routes/transcribe-robust.js with the cache: a behaviour is a sequence of
   requests to the route, at most two of them in flight at a time, and of
   deletions from the command line (utils/inspectCache.js).  A request is
   modelled at the suspension points of the handler: the awaits of
   computeHash, extractAudio and orchestrateTranscription; the calls of the
   cache are synchronous and belong to the step that makes them.  The
   orchestrator is one collaborator here: its run either returns a result,
   which is always a success with a transcript, or throws.  The timings of
   the responses and the subtitle file written next to the audio file are
   left out.  The fileHash of a request is null or [hex |-> digest]. *)

\* the files of the backend directory, each with its bytes
Uploads ==
    ("a.mp4" :> "x") @@ ("b.wav" :> "x") @@ ("c.txt" :> "y")

\* path.extname(filePath).toLowerCase()
extname(filePath) ==
    (("a.mp4" :> ".mp4") @@ ("b.wav" :> ".wav") @@ ("c.txt" :> ".txt")
       @@ ("missing.wav" :> ".wav"))[filePath]

\* the digest of the bytes of a file
sha256(bytes) == (("x" :> "fp1") @@ ("y" :> "fp2"))[bytes]

\* req.body; a filePath that is not given is the empty string
Bodies ==
    { [filePath |-> "a.mp4", modelSize |-> "large-v3", useCache |-> TRUE,
       saveSRT |-> TRUE],
      [filePath |-> "b.wav", modelSize |-> "base", useCache |-> TRUE,
       saveSRT |-> FALSE],
      [filePath |-> "a.mp4", modelSize |-> "large-v3", useCache |-> FALSE,
       saveSRT |-> TRUE],
      [filePath |-> "c.txt", modelSize |-> "large-v3", useCache |-> TRUE,
       saveSRT |-> TRUE],
      [filePath |-> "missing.wav", modelSize |-> "large-v3", useCache |-> TRUE,
       saveSRT |-> TRUE],
      [filePath |-> "", modelSize |-> "large-v3", useCache |-> TRUE,
       saveSRT |-> TRUE] }

\* what orchestrateTranscription returns
OrchestrationResults ==
    { [ success       |-> TRUE,
        transcription |-> [text |-> text, language |-> "fr"],
        userMessage   |-> "ok",
        warnings      |-> << >> ] : text \in {"bonjour", "bonjou"} }

\* the messages of the errors the collaborators throw
OrchestrationErrors == {"AnalysisFailure", "RecognitionFailure"}

\* the cache directory when the server starts: empty, or with an entry for
\* the bytes "x" whose payload file, or whose metadata file, an interrupted
\* write has left truncated
RouteCacheDirs ==
    { << >>,
      jsonPath("fp1") :> Truncated,
      (jsonPath("fp1") :> JSONstringify([userMessage |-> "ok"]))
         @@ (metaPath("fp1") :> Truncated) }

RouteInit ==
    /\ cacheDir \in RouteCacheDirs
    /\ cacheCalls = << >>
    /\ loaded = NULL
    /\ now = 0
    /\ CacheIdle
    /\ RouteIdle

RouteUnchanged ==
    /\ UNCHANGED << cacheCalls, loaded, now >>
    /\ CacheUnchanged

\* res.status(status).json(body): the handler is over
Respond(request, status, body) ==
    [ request EXCEPT !.pc = "responded",
                     !.response = [status |-> status] @@ body ]

\* the catch of the handler
Catch(request, message) ==
    Respond(request, 500, [ success |-> FALSE, error |-> "PipelineError",
                            details |-> message ])

\* step 1 of the handler, up to its next await
Step1(request) ==
    LET ext == extname(request.body.filePath)
    IN  IF ext \in {".mp4", ".mkv"}
        THEN [ request EXCEPT !.pc = "extractAudio",
                              !.calls = Append(@, "extractAudio") ]
        ELSE IF ext \in {".mp3", ".wav"}
        THEN [ request EXCEPT !.pc = "orchestrateTranscription",
                              !.calls = Append(@, "orchestrateTranscription") ]
        ELSE Respond(request, 400, [ success |-> FALSE,
                                     error |-> "UnsupportedFormat" ])

\* the response to a request whose entry was loaded from the cache
FromCache(cached) ==
    Spread([ success |-> TRUE, fromCache |-> TRUE,
             cacheMetadata |-> cached.metadata ],
           cached.transcription)

\* step 0 with the requests in flight for the same fingerprint joined: the
\* later one is answered without processing of its own
Step0Deduplicated(request, dir) ==
    IF \E r \in Slots :
          /\ requests[r].pc \in {"extractAudio", "orchestrateTranscription"}
          /\ requests[r].fileHash = request.fileHash
    THEN Respond([request EXCEPT !.cacheRead = "miss"], 200,
                 [ success |-> TRUE, fromCache |-> FALSE ])
    ELSE IF isCached(dir, request.fileHash.hex)
    THEN LET cached == loadCache(dir, request.fileHash.hex)
         IN  IF cached # NULL
             THEN Respond([request EXCEPT !.cacheRead = "hit"], 200,
                          FromCache(cached))
             ELSE Step1([request EXCEPT !.cacheRead = "unreadable"])
    ELSE Step1([request EXCEPT !.cacheRead = "miss"])

\* step 0 with an entry that counts only for the model size it was made with
Step0KeyedByModelSize(request, dir) ==
    IF isCached(dir, request.fileHash.hex)
    THEN LET cached == loadCache(dir, request.fileHash.hex)
         IN  IF /\ cached # NULL
                /\ "input" \in DOMAIN cached.transcription
                /\ cached.transcription.input.modelSize = request.body.modelSize
             THEN Respond([request EXCEPT !.cacheRead = "hit"], 200,
                          FromCache(cached))
             ELSE Step1([request EXCEPT !.cacheRead = "unreadable"])
    ELSE Step1([request EXCEPT !.cacheRead = "miss"])

\* step 0 of the handler after computeHash has resolved
Step0(request, dir) ==
    IF isCached(dir, request.fileHash.hex)
    THEN LET cached == loadCache(dir, request.fileHash.hex)
         IN  IF cached # NULL
             THEN Respond([request EXCEPT !.cacheRead = "hit"], 200,
                          FromCache(cached))
             ELSE Step1([request EXCEPT !.cacheRead = "unreadable"])
    ELSE Step1([request EXCEPT !.cacheRead = "miss"])

\* a request arrives: validation, then step 0 up to the await of
\* computeHash, or step 1 when the cache is not used
Post(r, body) ==
    LET request ==
           [ NoRequest EXCEPT
               !.body = body,
               !.afterSuccess = /\ body.useCache
                                /\ body.filePath \in DOMAIN Uploads
                                /\ Uploads[body.filePath] \in served,
               !.afterStore = /\ body.useCache
                              /\ body.filePath \in DOMAIN Uploads
                              /\ Uploads[body.filePath] \in stored ]
    IN  /\ requests[r].pc \in {"idle", "responded"}
        /\ started < MaxRequests
        /\ started' = started + 1
        /\ requests' = [ requests EXCEPT ![r] =
              IF body.filePath = ""
              THEN Respond(request, 400, [ success |-> FALSE,
                                           error |-> "FilePathRequired" ])
              ELSE IF body.filePath \notin DOMAIN Uploads
              THEN Respond(request, 404, [ success |-> FALSE,
                                           error |-> "FileNotFound" ])
              ELSE IF body.useCache
              THEN [ request EXCEPT !.pc = "computeHash" ]
              ELSE Step1(request) ]
        /\ UNCHANGED << cacheDir, served, stored >>
        /\ RouteUnchanged

\* a request answered with success and with the cache in use counts for
\* the bytes of its file; it has stored them when it was answered from the
\* cache or when its saveCache returned
Counted(request) ==
    IF /\ request.pc = "responded"
       /\ request.response.success
       /\ request.body.useCache
    THEN {Uploads[request.body.filePath]}
    ELSE {}

CountedStored(request) ==
    IF Counted(request) = {} THEN {}
    ELSE IF \/ request.response.fromCache
            \/ request.put # NULL /\ ~request.put.threw
    THEN Counted(request)
    ELSE {}

\* computeHash resolves: the rest of step 0, then step 1 unless the entry
\* was loaded
ComputeHashResolves(r) ==
    LET request == requests[r]
        hashed == [ request EXCEPT
                      !.fileHash = [hex |-> sha256(Uploads[request.body.filePath])] ]
        next == Step0(hashed, cacheDir)
    IN  /\ request.pc = "computeHash"
        /\ requests' = [ requests EXCEPT ![r] = next ]
        /\ served' = served \cup Counted(next)
        /\ stored' = stored \cup Counted(next)
        /\ UNCHANGED << cacheDir, started >>
        /\ RouteUnchanged

\* computeHash rejects: the catch of step 0, then step 1
ComputeHashRejects(r) ==
    LET request == requests[r]
    IN  /\ request.pc = "computeHash"
        /\ requests' = [ requests EXCEPT ![r] =
                            Step1([request EXCEPT !.hashError = TRUE]) ]
        /\ UNCHANGED << cacheDir, started, served, stored >>
        /\ RouteUnchanged

\* extractAudio resolves: the handler calls the orchestrator
ExtractAudioResolves(r) ==
    LET request == requests[r]
    IN  /\ request.pc = "extractAudio"
        /\ requests' = [ requests EXCEPT ![r] =
              [ request EXCEPT !.pc = "orchestrateTranscription",
                               !.calls = Append(@, "orchestrateTranscription") ] ]
        /\ UNCHANGED << cacheDir, started, served, stored >>
        /\ RouteUnchanged

\* extractAudio rejects
ExtractAudioRejects(r) ==
    LET request == requests[r]
    IN  /\ request.pc = "extractAudio"
        /\ requests' = [ requests EXCEPT ![r] =
                            Catch(request, "ExtractionFailure") ]
        /\ UNCHANGED << cacheDir, started, served, stored >>
        /\ RouteUnchanged

\* generateSRTFile of the segments when saveSRT is set
srtContentOf(body, orchestrationResult) ==
    IF body.saveSRT
    THEN [text |-> << "1", orchestrationResult.transcription.text >>]
    ELSE NULL

\* responseData of the handler
responseData(body, orchestrationResult) ==
    [ success     |-> TRUE,
      fromCache   |-> FALSE,
      userMessage |-> orchestrationResult.userMessage,
      input       |-> [ originalFile |-> body.filePath,
                        modelSize    |-> body.modelSize,
                        language     |-> orchestrationResult.transcription.language ],
      raw         |-> [ text |-> orchestrationResult.transcription.text ],
      formatted   |-> [ srtFile |-> srtContentOf(body, orchestrationResult) ],
      warnings    |-> orchestrationResult.warnings ]

\* the payload the handler saves: responseData without its flags
payloadOf(data) ==
    [ k \in {"userMessage", "input", "raw", "formatted", "warnings"} |-> data[k] ]

\* the metadata the handler saves
metadataOf(body, orchestrationResult) ==
    [ modelSize      |-> body.modelSize,
      language       |-> orchestrationResult.transcription.language,
      processingTime |-> "12s",
      originalFile   |-> body.filePath ]

AfterSaveFatal(request, saved, data) ==
    IF saved.threw
    THEN Catch([ request EXCEPT !.put = saved ], "CacheWriteFailure")
    ELSE Respond([ request EXCEPT !.put = saved ], 200, data)

\* the handler after its saveCache: a throw of saveCache is caught and
\* logged, the response is responseData
AfterSave(request, saved, data) ==
    Respond([ request EXCEPT !.put = saved ], 200, data)

\* orchestrateTranscription returns: the response is assembled, saved in
\* the cache when the cache is used and the fingerprint is known, and sent
OrchestrateReturns(r, orchestrationResult, fault) ==
    LET request == [ requests[r] EXCEPT !.result = orchestrationResult ]
        body == request.body
        data == responseData(body, orchestrationResult)
        saves == body.useCache /\ request.fileHash # NULL
        saved == saveCache(cacheDir, now, request.fileHash.hex, payloadOf(data),
                           srtContentOf(body, orchestrationResult),
                           metadataOf(body, orchestrationResult), fault)
        next ==
           IF ~orchestrationResult.success
              \/ orchestrationResult.transcription = NULL
           THEN Respond(request, 500,
                        [ success |-> FALSE, error |-> "TranscriptionFailed",
                          userMessage |-> orchestrationResult.userMessage,
                          warnings |-> orchestrationResult.warnings ])
           ELSE IF saves
           THEN AfterSave(request,
                          [ hash     |-> request.fileHash.hex,
                            existed  |-> isCached(cacheDir, request.fileHash.hex),
                            readable |-> loadCache(cacheDir, request.fileHash.hex) # NULL,
                            threw    |-> saved.threw ],
                          data)
           ELSE Respond(request, 200, data)
    IN  /\ requests[r].pc = "orchestrateTranscription"
        /\ saves \/ fault = ""
        /\ requests' = [ requests EXCEPT ![r] = next ]
        /\ cacheDir' = IF saves THEN saved.dir ELSE cacheDir
        /\ served' = served \cup Counted(next)
        /\ stored' = stored \cup CountedStored(next)
        /\ UNCHANGED started
        /\ RouteUnchanged

OrchestrateThrowsAfterPut(r, message) ==
    LET request == requests[r]
    IN  /\ request.pc = "orchestrateTranscription"
        /\ requests' = [ requests EXCEPT ![r] = Catch(request, message) ]
        /\ cacheDir' = IF request.fileHash # NULL
                       THEN writeFileSync(cacheDir, jsonPath(request.fileHash.hex),
                                          JSONstringify([userMessage |-> message]))
                       ELSE cacheDir
        /\ UNCHANGED << started, served, stored >>
        /\ RouteUnchanged

\* orchestrateTranscription throws
OrchestrateThrows(r, message) ==
    LET request == requests[r]
    IN  /\ request.pc = "orchestrateTranscription"
        /\ requests' = [ requests EXCEPT ![r] = Catch(request, message) ]
        /\ UNCHANGED << cacheDir, started, served, stored >>
        /\ RouteUnchanged

\* node utils/inspectCache.js delete <hash>; the requests in flight for
\* the bytes of that hash no longer follow a success
RemoveCacheCmd(hash) ==
    LET deletedBytes == { bytes \in {"x", "y"} : sha256(bytes) = hash }
    IN  /\ cacheDir' = deleteCache(cacheDir, hash).dir
        /\ served' = served \ deletedBytes
        /\ stored' = stored \ deletedBytes
        /\ requests' = [ r \in Slots |->
              IF /\ requests[r].pc \notin {"idle", "responded"}
                 /\ Uploads[requests[r].body.filePath] \in deletedBytes
              THEN [ requests[r] EXCEPT !.afterSuccess = FALSE,
                                        !.afterStore = FALSE ]
              ELSE requests[r] ]
        /\ UNCHANGED started
        /\ RouteUnchanged

RouteNext ==
    \/ \E r \in Slots, body \in Bodies : Post(r, body)
    \/ \E r \in Slots : ComputeHashResolves(r)
    \/ \E r \in Slots : ComputeHashRejects(r)
    \/ \E r \in Slots : ExtractAudioResolves(r)
    \/ \E r \in Slots : ExtractAudioRejects(r)
    \/ \E r \in Slots, orchestrationResult \in OrchestrationResults,
          fault \in WriteFaults : OrchestrateReturns(r, orchestrationResult, fault)
    \/ \E r \in Slots, message \in OrchestrationErrors : OrchestrateThrows(r, message)
    \/ \E hash \in Fingerprints : RemoveCacheCmd(hash)

RouteSpec == RouteInit /\ [][RouteNext]_vars


-----------------------------------------------------------------------------
(* cacheManager.js: cleanOldCaches.  A behaviour is a sequence of calls of
   saveCache, deleteCache and cleanOldCaches while the days pass; the clock
   counts days. *)

\* the days on which the calls are made
Days == {0, 1, 30, 31}

\* maxAgeDays: left out, 0 and 1
MaxAges == { NULL, [days |-> 0], [days |-> 1] }

\* the calls of saveCache: the payload with subtitles and the metadata of
\* the route, saved or with the write of the metadata file throwing, and the
\* payload without subtitles with metadata that have a hash of their own
PurgePuts ==
    { put \in Puts :
         \/ /\ put.data[2] # NULL
            /\ "processingTime" \in DOMAIN put.metadata
            /\ put.fault \in {"", ".meta.json"}
         \/ /\ put.data[2] = NULL
            /\ "hash" \in DOMAIN put.metadata }

PurgeInit ==
    /\ cacheDir \in RouteCacheDirs
    /\ cacheCalls = << >>
    /\ loaded = NULL
    /\ now = 0
    /\ CacheIdle
    /\ RouteIdle

\* time passes
Tick(day) ==
    /\ day > now
    /\ now' = day
    /\ UNCHANGED << cacheDir, cacheCalls, loaded, routeVars >>
    /\ CacheUnchanged

\* a call of cleanOldCaches(maxAgeDays)
CleanOldCaches(maxAgeDays) ==
    LET cleaned == cleanOldCaches(cacheDir, now, maxAgeDays)
    IN  /\ UNCHANGED routeVars
        /\ cacheDir' = cleaned.dir
        /\ cacheCalls' = Called([ op |-> "cleanOldCaches",
                                  maxAgeDays |-> maxAgeDays,
                                  threw |-> cleaned.threw,
                                  returned |-> cleaned.returned ])
        /\ loaded' = NULL
        /\ UNCHANGED now
        /\ CacheUnchanged

PurgeNext ==
    \/ \E hash \in Fingerprints, put \in PurgePuts :
          SaveCache(hash, put.data[1], put.data[2], put.metadata, put.fault)
    \/ \E hash \in Fingerprints : DeleteCache(hash)
    \/ \E day \in Days : Tick(day)
    \/ \E maxAgeDays \in MaxAges : CleanOldCaches(maxAgeDays)

PurgeSpec == PurgeInit /\ [][PurgeNext]_vars

-----------------------------------------------------------------------------
(* Properties *)

\* the positions of the history where fn was called
CallsOf(fn) ==
    { n \in 1..Len(trace) : trace[n].fn = fn /\ trace[n].phase = "call" }

\* the candidate list has been built and the loop entered
StrategiesBuilt ==
    \/ pc \in {"transcribeAudio", "formatWithGPT", "done"}
    \/ pc = "failed" /\ error = [message |-> "RecognitionFailure"]

StrategyNames(strats) == [ n \in 1..Len(strats) |-> strats[n].name ]

\* C1: with fallback enabled, as soon as the attempt on candidate i has
\* returned a transcript whose report is acceptable, the run is over: the
\* engine was called exactly i times, on candidates 1..i, no call is pending
\* or made later, and candidate i is recorded as the used strategy.
C1_AcceptanceShortCircuit ==
    ( /\ options.useFallback
      /\ transcriptionQualityReport # NULL
      /\ transcriptionQualityReport.isAcceptable )
    => /\ pc = "done"
       /\ lastReturned.tier = i
       /\ Cardinality(CallsOf("transcribeAudio")) = i
       /\ attemptedStrategies = SubSeq(StrategyNames(strategies), 1, i)
       /\ usedStrategy = strategies[i]
       /\ result.fallback.usedStrategy = strategies[i].name
       /\ result.fallback.strategiesAttempted = attemptedStrategies

\* the second attempt scored 60 and a third candidate was left untried
C1_Witness ==
    /\ options.useFallback
    /\ pc = "done"
    /\ i = 2
    /\ Len(strategies) >= 3
    /\ transcriptionQualityReport.qualityScore = 60
    /\ Cardinality(CallsOf("transcribeAudio")) = 2

\* the events of the history about fn, in order
RECURSIVE EventsOf(_, _)
EventsOf(tr, fn) ==
    IF tr = << >> THEN << >>
    ELSE (IF Head(tr).fn = fn THEN << Head(tr) >> ELSE << >>) \o EventsOf(Tail(tr), fn)

\* every attempt made so far has returned (none threw, none is pending)
AllAttemptsReturned ==
    LET ev == EventsOf(trace, "transcribeAudio")
    IN  /\ Len(ev) = 2 * Len(strategies)
        /\ \A n \in 1..Len(ev) : ev[n].phase # "throw"

\* C2: when the engine has returned on every candidate and the last report
\* is not acceptable either, the run does not fail; it ends with success =
\* TRUE, and the transcript and the report it returns are those of the last
\* candidate, which is the used strategy.
C2_BestEffortKept ==
    ( /\ StrategiesBuilt
      /\ AllAttemptsReturned
      /\ ~transcriptionQualityReport.isAcceptable )
    => /\ pc \in {"formatWithGPT", "done"}
       /\ error = NULL
       /\ lastReturned.tier = Len(strategies)
       /\ result.transcription = lastReturned.transcription
       /\ result.transcriptionQuality =
              analyzeTranscriptionQuality(lastReturned.transcription)
       /\ result.fallback.usedStrategy = strategies[Len(strategies)].name
       /\ result.fallback.usedModel = strategies[Len(strategies)].modelSize
       /\ pc = "done" => result.success

\* five candidates all returned an unacceptable transcript
C2_Witness ==
    /\ pc = "done"
    /\ Len(strategies) = 5
    /\ AllAttemptsReturned
    /\ ~result.transcriptionQuality.isAcceptable
    /\ result.success

\* the step settles the pending recognition call with a rejection
AttemptThrows ==
    /\ pc = "transcribeAudio"
    /\ Len(trace') > Len(trace)
    /\ trace'[Len(trace) + 1].phase = "throw"

\* C3: when the engine throws on candidate i, the loop goes on with
\* candidate i + 1 and nothing is thrown if i is not the last candidate;
\* if i is the last one, orchestrateTranscription throws that error.
C3_ThrowOnlyFromLastTier ==
    [][ AttemptThrows =>
          IF i = Len(strategies)
          THEN /\ pc' = "failed"
               /\ error' = [message |-> "RecognitionFailure"]
               /\ ~result'.success
               /\ CallsOf("transcribeAudio")' = CallsOf("transcribeAudio")
          ELSE /\ pc' = "transcribeAudio"
               /\ error' = NULL
               /\ i' = i + 1
               /\ trace'[Len(trace')] =
                    Event("transcribeAudio", "call", strategies[i + 1].modelSize,
                          workingAudioPath) ]_vars

\* a candidate that is not the last threw, then the last one threw
C3_Witness ==
    /\ pc = "failed"
    /\ error = [message |-> "RecognitionFailure"]
    /\ Len(strategies) >= 2
    /\ \A n \in 1..Len(trace) :
          trace[n].fn = "transcribeAudio" => trace[n].phase # "return"

\* the catalogue positions whose floor is at most score, and the n-th of them
FloorsMet(score) ==
    { n \in 1..Len(WHISPER_FALLBACK_STRATEGIES) :
        WHISPER_FALLBACK_STRATEGIES[n].minAudioQuality <= score }

NthOf(S, n) == CHOOSE m \in S : Cardinality({ x \in S : x <= m }) = n

\* C4: with fallback enabled the candidate list is the catalogue (floors 70,
\* 50, 30, 20, 0) restricted to the entries whose floor is at most the audio
\* score, in catalogue order; for a score of 45 it is SMALL_BALANCED,
\* MEDIUM_ROBUST, LARGE_ULTIMATE.
C4_CandidatesAreFloorFilter ==
    ( StrategiesBuilt /\ options.useFallback )
    => LET score == audioQualityReport.qualityScore
       IN  /\ [ n \in 1..Len(WHISPER_FALLBACK_STRATEGIES) |->
                  WHISPER_FALLBACK_STRATEGIES[n].minAudioQuality ]
              = << 70, 50, 30, 20, 0 >>
           /\ Len(strategies) = Cardinality(FloorsMet(score))
           /\ \A n \in 1..Len(strategies) :
                 strategies[n] = WHISPER_FALLBACK_STRATEGIES[NthOf(FloorsMet(score), n)]
           /\ score = 45 =>
                 StrategyNames(strategies) =
                    << "SMALL_BALANCED", "MEDIUM_ROBUST", "LARGE_ULTIMATE" >>

C4_Witness ==
    /\ options.useFallback
    /\ pc = "transcribeAudio"
    /\ audioQualityReport.qualityScore = 45
    /\ StrategyNames(strategies) = << "SMALL_BALANCED", "MEDIUM_ROBUST", "LARGE_ULTIMATE" >>

\* C5 as stated: with fallback enabled an audio score of 5 leaves the filter
\* empty, so that the whole catalogue is the candidate list, TINY_FAST first.
C5_FullCatalogueAtScore5 ==
    ( StrategiesBuilt /\ options.useFallback
      /\ audioQualityReport.qualityScore = 5 )
    => /\ strategies = WHISPER_FALLBACK_STRATEGIES
       /\ strategies[1].name = "TINY_FAST"

\* C5 amended: with fallback enabled an audio score of 5 meets the floor 0 of
\* LARGE_ULTIMATE and no other floor, so the filter is not empty, the
\* catalogue is not substituted, and LARGE_ULTIMATE is the only candidate.
C5_OnlyLargeAtScore5 ==
    ( StrategiesBuilt /\ options.useFallback
      /\ audioQualityReport.qualityScore = 5 )
    => /\ StrategyNames(strategies) = << "LARGE_ULTIMATE" >>
       /\ \A n \in CallsOf("transcribeAudio") : trace[n].arg = "large-v3"

C5_Witness ==
    /\ options.useFallback
    /\ audioQualityReport # NULL
    /\ audioQualityReport.qualityScore = 5
    /\ pc = "done"
    /\ attemptedStrategies = << "LARGE_ULTIMATE" >>

\* C6: a run whose audio analysis succeeded has a non-empty candidate list
\* and never ends (returns or throws) without having called the recognition
\* engine; whatever score in 0..100 the analysis of a starting run returns
\* and whatever the options, the candidate list built from it is non-empty.
C6_AlwaysAttempts ==
    /\ ( audioQualityReport # NULL /\ pc \in {"formatWithGPT", "done", "failed"} )
       => /\ Len(strategies) >= 1
          /\ CallsOf("transcribeAudio") # {}
    /\ pc = "checkAudioQuality"
       => \A score \in 0..100, useFallback \in BOOLEAN, modelSize \in ModelSizes :
             Len(BuildStrategies(useFallback, score, modelSize)) >= 1

\* a run without fallback on unusable audio ended after an attempt
C6_Witness ==
    /\ pc = "done"
    /\ ~options.useFallback
    /\ audioQualityReport.qualityScore = 0
    /\ Cardinality(CallsOf("transcribeAudio")) = 1

\* C7: without fallback the candidate list is the single entry of the
\* caller's model size whatever the audio score, the engine is called once,
\* with that model, and never again, also after an unacceptable transcript.
C7_ManualOverride ==
    ( StrategiesBuilt /\ ~options.useFallback )
    => /\ Len(strategies) = 1
       /\ strategies[1].name = "USER_SPECIFIED"
       /\ strategies[1].modelSize = options.modelSize
       /\ Cardinality(CallsOf("transcribeAudio")) = 1
       /\ \A n \in CallsOf("transcribeAudio") : trace[n].arg = options.modelSize
       /\ attemptedStrategies = << "USER_SPECIFIED" >>

\* good audio, manual mode, and the only attempt was not acceptable
C7_Witness ==
    /\ ~options.useFallback
    /\ options.modelSize = "base"
    /\ pc = "done"
    /\ audioQualityReport.qualityScore = 100
    /\ ~result.transcriptionQuality.isAcceptable
    /\ Cardinality(CallsOf("transcribeAudio")) = 1

\* the step of the pipeline an external call belongs to
StepOf(fn) ==
    CASE fn = "checkAudioQuality" -> 1
      [] fn \in {"enhanceAudio", "removeSilence"} -> 2
      [] fn = "transcribeAudio" -> 3
      [] fn = "formatWithGPT" -> 4

CatalogueIndex(modelSize) ==
    CHOOSE n \in 1..Len(WHISPER_FALLBACK_STRATEGIES) :
        WHISPER_FALLBACK_STRATEGIES[n].modelSize = modelSize

\* C8: the external calls of a run are made one at a time, each settled
\* (returned or thrown) before the next is made, and in the order analysis,
\* enhancement, recognition, correction; the analysis has returned before
\* anything else is called; the k-th recognition call is on the k-th
\* candidate, and with fallback the candidates are in catalogue order.
C8_Ordering ==
    LET calls == CallsOf("transcribeAudio")
        attempts == EventsOf(trace, "transcribeAudio")
    IN  /\ \A n \in 1..Len(trace) :
              /\ trace[n].phase = "call" <=> n % 2 = 1
              /\ n % 2 = 0 => trace[n].fn = trace[n - 1].fn
              /\ n > 1 => StepOf(trace[n - 1].fn) <= StepOf(trace[n].fn)
        /\ trace[1].fn = "checkAudioQuality"
        /\ Len(trace) > 2 => trace[2].phase = "return"
        /\ \A k \in 1..Cardinality(calls) :
              attempts[2 * k - 1].arg = strategies[k].modelSize
        /\ options.useFallback =>
              \A k \in 2..Cardinality(calls) :
                 CatalogueIndex(attempts[2 * k - 3].arg)
                    < CatalogueIndex(attempts[2 * k - 1].arg)

\* a run that enhanced, made three attempts and asked for the correction
C8_Witness ==
    /\ pc = "done"
    /\ options.useFallback
    /\ CallsOf("enhanceAudio") # {}
    /\ CallsOf("removeSilence") # {}
    /\ Cardinality(CallsOf("transcribeAudio")) = 3
    /\ CallsOf("formatWithGPT") # {}

\* C9: the correction engine is called only when the caller enabled the
\* correction and the report of the kept transcript is not acceptable.
C9_CorrectionOnlyWhenNeeded ==
    CallsOf("formatWithGPT") # {}
    => /\ options.useGPTCorrection
       /\ result.transcriptionQuality # NULL
       /\ ~result.transcriptionQuality.isAcceptable
       /\ result.transcription = lastReturned.transcription

C9_Witness ==
    /\ pc = "formatWithGPT"
    /\ options.useGPTCorrection
    /\ result.transcriptionQuality.qualityScore = 35

\* the correction engine was called and threw
CorrectionThrew ==
    \E n \in 1..Len(trace) : trace[n].fn = "formatWithGPT" /\ trace[n].phase = "throw"

\* C10: when the correction engine throws, the run returns with success =
\* TRUE and the transcript of the engine, gptCorrection stays null, and a
\* warning about the failure is the last of the warnings.
C10_CorrectionFailureNotFatal ==
    CorrectionThrew
    => /\ pc = "done"
       /\ error = NULL
       /\ result.success
       /\ result.transcription = lastReturned.transcription
       /\ result.gptCorrection = NULL
       /\ Len(result.warnings) >= 1
       /\ result.warnings[Len(result.warnings)] = "GPTCorrectionFailed"

C10_Witness ==
    /\ CorrectionThrew
    /\ pc = "done"
    /\ result.success
    /\ result.gptCorrection = NULL

\* the enhancement was attempted and threw
EnhancementThrew ==
    \E n \in 1..Len(trace) : trace[n].fn = "enhanceAudio" /\ trace[n].phase = "throw"

\* C11: when the enhancement throws, the run is not aborted by it: it goes
\* on to the recognition, a warning about the failure is appended, the
\* enhancement record stays null, finalAudioPath stays the original path, and
\* every recognition attempt of the run is made on the original audio.
C11_EnhancementFailureNotFatal ==
    EnhancementThrew
    => /\ error # [message |-> "EnhancementFailure"]
       /\ CallsOf("transcribeAudio") # {}
       /\ \E n \in 1..Len(result.warnings) : result.warnings[n] = "EnhancementFailed"
       /\ result.enhancement = NULL
       /\ result.finalAudioPath = AudioPath
       /\ workingAudioPath = AudioPath
       /\ \A n \in 1..Len(trace) :
             trace[n].fn = "transcribeAudio" => trace[n].audio = AudioPath

\* the enhancement threw and two attempts on the original audio followed
C11_Witness ==
    /\ EnhancementThrew
    /\ pc = "done"
    /\ result.success
    /\ Cardinality(CallsOf("transcribeAudio")) = 2

\* ffmpeg could not be started for one of the two analyses of the file
EngineNotInvoked(audio) ==
    \/ audio.volumedetect.error /\ ~audio.volumedetect.named
    \/ audio.silencedetect.error /\ ~audio.silencedetect.named

\* the output of ffmpeg lacks the mean volume, the peak volume or the
\* duration of the file
OutputUnparsed(audio) ==
    \/ audio.volumedetect.mean_volume = NULL
    \/ audio.volumedetect.max_volume = NULL
    \/ audio.silencedetect.Duration = NULL

\* C12: when ffmpeg cannot be invoked, or its output lacks the mean volume,
\* the peak volume or the duration, the analysis fails instead of returning
\* a report: the run aborts with the analysis error, without a report,
\* without enhancement and without recognition attempt.
C12_UnparsedAnalysisFails ==
    ( /\ EngineNotInvoked(audioFile) \/ OutputUnparsed(audioFile)
      /\ pc # "checkAudioQuality" )
    => /\ pc = "failed"
       /\ error = [message |-> "AnalysisFailure"]
       /\ audioQualityReport = NULL
       /\ result.audioQuality = NULL
       /\ CallsOf("enhanceAudio") = {}
       /\ CallsOf("transcribeAudio") = {}

\* the outcome x carries the reports the run had gathered
CarriesReports(x) ==
    /\ "audioQuality" \in DOMAIN x
    /\ x.audioQuality = audioQualityReport
    /\ transcriptionQualityReport # NULL
       => /\ "transcriptionQuality" \in DOMAIN x
          /\ x.transcriptionQuality = transcriptionQualityReport

\* C13: when the run fails after the audio analysis has returned, what is
\* delivered to the caller carries the audio quality report (and the
\* transcription quality report, if there is one): the error thrown by
\* orchestrateTranscription does, and so does the response of the route.
C13_FailureCarriesReports ==
    ( pc = "failed" /\ audioQualityReport # NULL )
    => /\ CarriesReports(error)
       /\ response # NULL => CarriesReports(response)

\* max(0, x)
FloorAtZero(x) == IF x < 0 THEN 0 ELSE x

\* C14: the score of an audio quality report and of a transcription
\* quality report is an integer between 0 and 100, whatever rules fired,
\* also when the deductions of the report sum to more than 100.
C14_ScoreInRange ==
    /\ audioQualityReport # NULL
       => audioQualityReport.qualityScore \in 0..100
    /\ transcriptionQualityReport # NULL
       => transcriptionQualityReport.qualityScore \in 0..100

\* the four audio rules fired together: 145 points deducted, score 0
C14_Witness ==
    /\ audioQualityReport # NULL
    /\ SumDeductions(audioQualityReport.issues) = 145
    /\ audioQualityReport.qualityScore = 0

\* the level that goes with a reported score
LevelOfScore(score) ==
    CASE score >= 80 -> "GOOD"
      [] score >= 50 /\ score < 80 -> "ACCEPTABLE"
      [] score >= 30 /\ score < 50 -> "POOR"
      [] score < 30 -> "UNUSABLE"

\* C15: in both reports the level is the bucket of the reported score (GOOD
\* from 80, ACCEPTABLE from 50, POOR from 30, UNUSABLE below), isAcceptable
\* holds exactly from 50, and needsEnhancement of the audio report holds
\* exactly below 80; so 85 is GOOD and acceptable, 55 ACCEPTABLE and
\* acceptable, 40 POOR and not acceptable, 10 UNUSABLE and not acceptable.
C15_LevelIsBucketOfScore ==
    /\ audioQualityReport # NULL
       => /\ audioQualityReport.qualityLevel =
                LevelOfScore(audioQualityReport.qualityScore)
          /\ audioQualityReport.isAcceptable
                <=> audioQualityReport.qualityScore >= 50
          /\ audioQualityReport.needsEnhancement
                <=> audioQualityReport.qualityScore < 80
          /\ audioQualityReport.qualityScore = 10
                => /\ audioQualityReport.qualityLevel = "UNUSABLE"
                   /\ ~audioQualityReport.isAcceptable
    /\ transcriptionQualityReport # NULL
       => /\ transcriptionQualityReport.qualityLevel =
                LevelOfScore(transcriptionQualityReport.qualityScore)
          /\ transcriptionQualityReport.isAcceptable
                <=> transcriptionQualityReport.qualityScore >= 50
          /\ transcriptionQualityReport.qualityScore = 85
                => /\ transcriptionQualityReport.qualityLevel = "GOOD"
                   /\ transcriptionQualityReport.isAcceptable
          /\ transcriptionQualityReport.qualityScore = 55
                => /\ transcriptionQualityReport.qualityLevel = "ACCEPTABLE"
                   /\ transcriptionQualityReport.isAcceptable
          /\ transcriptionQualityReport.qualityScore = 40
                => /\ transcriptionQualityReport.qualityLevel = "POOR"
                   /\ ~transcriptionQualityReport.isAcceptable

\* a report whose deductions exceed 100: the level was computed from the
\* running total, the reported score is 0
C15_Witness ==
    /\ transcriptionQualityReport # NULL
    /\ SumDeductions(transcriptionQualityReport.issues) > 100
    /\ transcriptionQualityReport.qualityScore = 0
    /\ transcriptionQualityReport.qualityLevel = "UNUSABLE"

\* the rules of the audio score as the specification lists them
AudioRuleTable ==
    { [type |-> "LOW_VOLUME",           severity |-> "HIGH",     deduction |-> 30],
      [type |-> "VERY_LOW_VOLUME",      severity |-> "CRITICAL", deduction |-> 40],
      [type |-> "TOO_MUCH_SILENCE",     severity |-> "HIGH",     deduction |-> 25],
      [type |-> "INSUFFICIENT_CONTENT", severity |-> "CRITICAL", deduction |-> 50] }

\* which rules fire on what ffmpeg measured: a volume that was not measured
\* is not below its threshold, a duration that was not measured is 0
AudioRulesFired(audio) ==
    LET v == audio.volumedetect
        s == audio.silencedetect
        duration == IF s.Duration = NULL THEN 0 ELSE s.Duration.seconds
    IN  [ LOW_VOLUME           |-> v.mean_volume # NULL /\ v.mean_volume.dB < -40,
          VERY_LOW_VOLUME      |-> v.max_volume # NULL /\ v.max_volume.dB < -20,
          TOO_MUCH_SILENCE     |-> duration > 0 /\ s.silence_duration * 100 > 80 * duration,
          INSUFFICIENT_CONTENT |-> duration - s.silence_duration < 2 ]

\* the sum of the deductions of the rules of table that fired
RECURSIVE DeductionsOf(_, _)
DeductionsOf(table, fired) ==
    IF table = {} THEN 0
    ELSE LET r == CHOOSE x \in table : TRUE
         IN  (IF fired[r.type] THEN r.deduction ELSE 0)
             + DeductionsOf(table \ {r}, fired)

\* issues has one entry for every rule of table that fired, with the
\* severity and the deduction of the rule, and no other entry
OneIssuePerFiredRule(issues, table, fired) ==
    /\ Len(issues) = Cardinality({ r \in table : fired[r.type] })
    /\ \A r \in table :
          fired[r.type] <=> \E n \in 1..Len(issues) : issues[n] = r

\* C16: the audio score is max(0, 100 - the deductions of the rules that
\* fire), the rules being mean volume < -40 dB (30, HIGH), peak volume < -20
\* dB (40, CRITICAL), silence percentage > 80 (25, HIGH) and non-silence
\* duration < 2 s (50, CRITICAL); the issues are exactly the fired rules;
\* without fired rule the score is 100, the level GOOD and needsEnhancement
\* false; and the rules fire independently: each of the 16 combinations is
\* the one of some input file.
C16_AudioScoreIsSumOfRules ==
    /\ audioQualityReport # NULL
       => LET fired == AudioRulesFired(audioFile)
          IN  /\ audioQualityReport.qualityScore =
                    FloorAtZero(100 - DeductionsOf(AudioRuleTable, fired))
              /\ OneIssuePerFiredRule(audioQualityReport.issues, AudioRuleTable, fired)
              /\ (\A r \in AudioRuleTable : ~fired[r.type])
                    => /\ audioQualityReport.qualityScore = 100
                       /\ audioQualityReport.qualityLevel = "GOOD"
                       /\ ~audioQualityReport.needsEnhancement
    /\ pc = "checkAudioQuality"
       => \A combination \in [ { r.type : r \in AudioRuleTable } -> BOOLEAN ] :
             \E f \in DirectAudioFiles : AudioRulesFired(f) = combination

\* the two HIGH rules fired and the two CRITICAL ones did not: score 45
C16_Witness ==
    /\ audioQualityReport # NULL
    /\ audioQualityReport.qualityScore = 45
    /\ Len(audioQualityReport.issues) = 2
    /\ audioQualityReport.issues[1].type = "LOW_VOLUME"
    /\ audioQualityReport.issues[2].type = "TOO_MUCH_SILENCE"

\* the rules of the transcription score as the specification lists them
TranscriptionRuleTable ==
    { [type |-> "TOO_MANY_EMPTY_SEGMENTS",           severity |-> "CRITICAL", deduction |-> 40],
      [type |-> "LOW_TOKEN_COUNT",                   severity |-> "HIGH",     deduction |-> 25],
      [type |-> "LOW_LANGUAGE_CONFIDENCE",           severity |-> "HIGH",     deduction |-> 20],
      [type |-> "TOO_MANY_LOW_PROBABILITY_SEGMENTS", severity |-> "HIGH",     deduction |-> 20],
      [type |-> "INSUFFICIENT_CONTENT",              severity |-> "CRITICAL", deduction |-> 50],
      [type |-> "EXCESSIVE_REPETITION",              severity |-> "MEDIUM",   deduction |-> 15] }

RECURSIVE TokensIn(_)
TokensIn(segments) ==
    IF segments = << >> THEN 0
    ELSE Head(segments).tokens + TokensIn(Tail(segments))

\* the features of an engine output the rules are about
TranscriptionFeatures(t) ==
    [ segments |-> Len(t.segments),
      nonEmpty |-> Cardinality({ m \in 1..Len(t.segments) : t.segments[m].tokens > 0 }),
      tokens   |-> TokensIn(t.segments),
      \* a segment without probability counts as certain
      lowConfidence |->
          Cardinality({ m \in 1..Len(t.segments) :
                          /\ t.segments[m].probability # 0
                          /\ t.segments[m].probability < 30 }) ]

\* which rules fire on an engine output; a percentage, an average or a
\* ratio over nothing is 0
TranscriptionRulesFired(t) ==
    LET f == TranscriptionFeatures(t)
    IN  [ TOO_MANY_EMPTY_SEGMENTS |->
              f.segments = 0 \/ f.nonEmpty * 100 < 30 * f.segments,
          LOW_TOKEN_COUNT |->
              f.nonEmpty = 0 \/ f.tokens < 3 * f.nonEmpty,
          LOW_LANGUAGE_CONFIDENCE |-> t.language_probability < 50,
          TOO_MANY_LOW_PROBABILITY_SEGMENTS |->
              f.segments > 0 /\ f.lowConfidence * 100 > 50 * f.segments,
          INSUFFICIENT_CONTENT |-> t.text.characters < 10,
          EXCESSIVE_REPETITION |->
              /\ t.text.words > 10
              /\ t.text.uniqueWords * 10 < 3 * t.text.words ]

\* the score is max(0, 100 - the deductions of the rules that fire), and the
\* issues are exactly the fired rules
TranscriptionScoreIsSumOfRules ==
    transcriptionQualityReport # NULL
    => LET fired == TranscriptionRulesFired(transcription)
       IN  /\ transcriptionQualityReport.qualityScore =
                 FloorAtZero(100 - DeductionsOf(TranscriptionRuleTable, fired))
           /\ OneIssuePerFiredRule(transcriptionQualityReport.issues,
                                   TranscriptionRuleTable, fired)

\* an analyzed output of 10 segments, 5 of them empty, on which no rule
\* other than the one on the token count can fire
HalfEmptyOutput ==
    /\ transcriptionQualityReport # NULL
    /\ LET f == TranscriptionFeatures(transcription)
           fired == TranscriptionRulesFired(transcription)
       IN  /\ f.segments = 10
           /\ f.nonEmpty = 5
           /\ \A r \in TranscriptionRuleTable :
                 r.type # "LOW_TOKEN_COUNT" => ~fired[r.type]

\* the report has the single issue LOW_TOKEN_COUNT and the score 75
OnlyLowTokenCount ==
    /\ Len(transcriptionQualityReport.issues) = 1
    /\ transcriptionQualityReport.issues[1].type = "LOW_TOKEN_COUNT"
    /\ transcriptionQualityReport.qualityScore = 75

HasIssueOfSeverity(report, severity) ==
    \E n \in 1..Len(report.issues) : report.issues[n].severity = severity

\* C18: the preset autoEnhance selects is determined by its quality report:
\* AGGRESSIVE when the report has a CRITICAL issue or a score below 30,
\* otherwise STANDARD when it has a HIGH issue or a score below 60,
\* otherwise LIGHT.
C18_PresetIsFunctionOfReport ==
    preset # ""
    => LET critical == HasIssueOfSeverity(directReport, "CRITICAL")
           high == HasIssueOfSeverity(directReport, "HIGH")
           score == directReport.qualityScore
       IN  /\ preset \in {"AGGRESSIVE", "STANDARD", "LIGHT"}
           /\ preset = "AGGRESSIVE" <=> (critical \/ score < 30)
           /\ preset = "STANDARD"
                <=> (~(critical \/ score < 30) /\ (high \/ score < 60))
           /\ preset = "LIGHT"
                <=> (~critical /\ ~high /\ score >= 60)

\* a report with a CRITICAL issue and the score 100: AGGRESSIVE
C18_Witness ==
    /\ preset = "AGGRESSIVE"
    /\ directReport.qualityScore = 100
    /\ HasIssueOfSeverity(directReport, "CRITICAL")

\* the positions of the history where fn settled with the given phase
SettledOf(fn, phase) ==
    { n \in 1..Len(trace) : trace[n].fn = fn /\ trace[n].phase = phase }

C20_PutGetRoundTrip ==
    ( /\ Len(cacheCalls) = 2
      /\ cacheCalls[1].op = "saveCache"
      /\ ~cacheCalls[1].threw
      /\ cacheCalls[2].op = "loadCache"
      /\ cacheCalls[2].hash = cacheCalls[1].hash )
    => /\ loaded # NULL
       /\ loaded.transcription = cacheCalls[1].transcriptionData
       /\ loaded.metadata.hash = cacheCalls[1].hash

\* C21: a second saveCache for a fingerprint, right after a first one and
\* with no write refused by the file system, does not throw, and a
\* loadCache of the fingerprint that follows returns the payload of the
\* second call.
C21_SecondPutWins ==
    [][ ( /\ Len(cacheCalls) = 2
          /\ cacheCalls[1].op = "saveCache"
          /\ cacheCalls[2].op = "saveCache"
          /\ cacheCalls[1].hash = cacheCalls[2].hash
          /\ cacheCalls[1].fault = ""
          /\ cacheCalls[2].fault = "" )
        => /\ ~cacheCalls[2].threw
           /\ LoadCache(cacheCalls[2].hash)
                 => ( /\ loaded' # NULL
                      /\ loaded'.transcription = cacheCalls[2].transcriptionData ) ]_vars

\* "hello" was saved without subtitles under a fingerprint that had the
\* subtitles of an earlier save, and then loaded
C21_Witness ==
    /\ Len(cacheCalls) = 2
    /\ cacheCalls[1].op = "saveCache"
    /\ cacheCalls[1].hash = "fp1"
    /\ cacheCalls[1].srtContent = NULL
    /\ ~cacheCalls[1].threw
    /\ cacheCalls[2] = [op |-> "loadCache", hash |-> "fp1"]
    /\ loaded # NULL
    /\ loaded.transcription = [text |-> "hello", userMessage |-> "ok"]
    /\ loaded.srt = [text |-> << "1", "bonjour" >>]

\* the last call of the behaviour
LastCall == cacheCalls[Len(cacheCalls)]

\* the files a call of saveCache is to write, each with its content
ArtifactsOf(call) ==
    { << jsonPath(call.hash), JSONstringify(call.transcriptionData) >>,
      << metaPath(call.hash),
         JSONstringify(Spread([hash |-> call.hash, createdAt |-> toISOString(now)],
                              call.metadata)) >> }
    \cup IF call.srtContent # NULL /\ call.srtContent.text # << >>
         THEN { << srtPath(call.hash), call.srtContent >> }
         ELSE {}

\* C24: after a saveCache, whether it returned or threw, the cache
\* directory holds either every file the call was to write (payload,
\* subtitles if given, metadata), with the content of the call, or none
\* of them.
C24_PutAllOrNothing ==
    ( /\ cacheCalls # << >>
      /\ LastCall.op = "saveCache" )
    => LET written == { a \in ArtifactsOf(LastCall) :
                           /\ existsSync(cacheDir, a[1])
                           /\ cacheDir[a[1]] = a[2] }
       IN  written = ArtifactsOf(LastCall) \/ written = {}

\* C29: loadCache(fp) returns null exactly when fp has no payload file or
\* a file of fp cannot be parsed.  Otherwise it returns the payload stored
\* in the payload file, with srt = null exactly when fp has no subtitle
\* file (the text of that file otherwise) and metadata = {} when fp has no
\* metadata file (the record of that file otherwise).
C29_GetToleratesAbsentArtifacts ==
    ( /\ cacheCalls # << >>
      /\ LastCall.op = "loadCache" )
    => LET hash == LastCall.hash
           hasJson == existsSync(cacheDir, jsonPath(hash))
           hasSrt == existsSync(cacheDir, srtPath(hash))
           hasMeta == existsSync(cacheDir, metaPath(hash))
           unparsable ==
              \/ hasJson /\ Len(cacheDir[jsonPath(hash)].text) % 2 = 1
              \/ hasMeta /\ Len(cacheDir[metaPath(hash)].text) % 2 = 1
       IN  /\ loaded = NULL <=> (~hasJson \/ unparsable)
           /\ loaded # NULL
                 => /\ JSONstringify(loaded.transcription) = cacheDir[jsonPath(hash)]
                    /\ loaded.srt = NULL <=> ~hasSrt
                    /\ hasSrt => loaded.srt = cacheDir[srtPath(hash)]
                    /\ ~hasMeta => loaded.metadata = << >>
                    /\ hasMeta => JSONstringify(loaded.metadata) = cacheDir[metaPath(hash)]

\* a payload without subtitle file and without metadata file was loaded
C29_Witness ==
    /\ cacheCalls # << >>
    /\ LastCall = [op |-> "loadCache", hash |-> "fp1"]
    /\ DOMAIN cacheDir \cap {jsonPath("fp1"), srtPath("fp1"), metaPath("fp1")}
          = {jsonPath("fp1")}
    /\ loaded # NULL
    /\ loaded.transcription = [text |-> "bonjour"]
    /\ loaded.srt = NULL
    /\ loaded.metadata = << >>

\* C30: deleteCache(fp) returns true exactly when fp had a payload file.
\* After it fp has no payload, subtitle or metadata file, isCached(fp) is
\* false, loadCache(fp) is null and listCaches() has no element whose hash
\* is fp; when fp had no payload file, the directory is unchanged.
C30_DeleteRemovesEntry ==
    [][ \A hash \in Fingerprints :
           DeleteCache(hash)
              => /\ LastCall'.returned = isCached(cacheDir, hash)
                 /\ DOMAIN cacheDir' \cap {jsonPath(hash), srtPath(hash), metaPath(hash)} = {}
                 /\ ~isCached(cacheDir', hash)
                 /\ loadCache(cacheDir', hash) = NULL
                 /\ \A n \in 1..Len(listCaches(cacheDir')) :
                       listCaches(cacheDir')[n].hash # hash
                 /\ ~isCached(cacheDir, hash) => cacheDir' = cacheDir ]_vars

\* the bytes of the file of a request
BytesOf(request) == Uploads[request.body.filePath]

\* the request of the slot has been answered
Answered(request) == request.pc = "responded"

C23_NoPutOnExistingEntry ==
    \A r \in Slots :
       requests[r].put # NULL => ~requests[r].put.readable

\* a file is written in the cache directory by the step
CacheWritten ==
    \E path \in DOMAIN cacheDir' :
       path \notin DOMAIN cacheDir \/ cacheDir'[path] # cacheDir[path]

\* C25: a step writes a file in the cache directory only when it is the
\* step of a request whose orchestrateTranscription returns a success with
\* a transcript and which is answered with success; a request answered
\* with a failure has called no saveCache, and the step that answers it
\* leaves the cache directory unchanged.
C25_OnlySuccessCreatesEntry ==
    [][ /\ CacheWritten
           => \E r \in Slots :
                 /\ requests[r].pc = "orchestrateTranscription"
                 /\ Answered(requests'[r])
                 /\ requests'[r].response.success
                 /\ requests'[r].result.success
                 /\ requests'[r].result.transcription # NULL
        /\ \A r \in Slots :
              (Answered(requests'[r]) /\ ~requests'[r].response.success)
                 => /\ requests'[r].put = NULL
                    /\ requests'[r] # requests[r] => cacheDir' = cacheDir ]_vars

\* the three failures: the orchestrator threw on the analysis with the
\* cache in use, it threw on the last tier, the format is not supported
C25_Witness ==
    /\ cacheDir = << >>
    /\ \E r \in Slots :
          /\ Answered(requests[r])
          /\ requests[r].fileHash # NULL
          /\ requests[r].cacheRead = "miss"
          /\ requests[r].response.status = 500
          /\ requests[r].response.details = "RecognitionFailure"
    /\ \E r \in Slots :
          /\ Answered(requests[r])
          /\ requests[r].fileHash # NULL
          /\ requests[r].response.status = 400
          /\ requests[r].response.error = "UnsupportedFormat"

\* C26: a request whose computeHash rejected has called no collaborator
\* and has been answered with a failure.
C26_FingerprintFailureAborts ==
    \A r \in Slots :
       requests[r].hashError
          => /\ requests[r].calls = << >>
             /\ Answered(requests[r])
             /\ ~requests[r].response.success

\* a file of the entry of the fingerprint cannot be parsed
Unparsable(dir, hash) ==
    \/ /\ existsSync(dir, jsonPath(hash))
       /\ Len(dir[jsonPath(hash)].text) % 2 = 1
    \/ /\ existsSync(dir, jsonPath(hash))
       /\ existsSync(dir, metaPath(hash))
       /\ Len(dir[metaPath(hash)].text) % 2 = 1

\* C27: when computeHash resolves for a request and a file of the entry
\* of the fingerprint cannot be parsed, loadCache returns null and the
\* request goes on exactly as it does when the fingerprint has no entry.
\* Such a request is not answered from the cache; it is answered with
\* success as soon as its orchestrateTranscription has returned, after a
\* saveCache for the fingerprint, and a failure it is answered with is the
\* unsupported format or the error a collaborator threw.
C27_UnreadableEntryIsMiss ==
    [][ \A r \in Slots :
           LET before == requests[r]
               request == requests'[r]
               hash == sha256(BytesOf(before))
               hashed == [ before EXCEPT !.fileHash = [hex |-> hash] ]
           IN  /\ ( /\ before.pc = "computeHash"
                    /\ request.fileHash # NULL
                    /\ Unparsable(cacheDir, hash) )
                  => /\ loadCache(cacheDir, hash) = NULL
                     /\ request.cacheRead = "unreadable"
                     /\ request = [ Step0(hashed, deleteCache(cacheDir, hash).dir)
                                      EXCEPT !.cacheRead = "unreadable" ]
               /\ ( /\ request.cacheRead = "unreadable"
                    /\ Answered(request) )
                  => /\ request.result # NULL
                        => /\ request.response.success
                           /\ ~request.response.fromCache
                           /\ request.put # NULL
                           /\ request.put.hash = hash
                     /\ request.result = NULL
                        => /\ ~request.response.success
                           /\ \/ request.response.error = "UnsupportedFormat"
                              \/ request.response.details \in
                                    OrchestrationErrors \cup {"ExtractionFailure"} ]_vars

\* a request found an entry that could not be read, was processed in full
\* and replaced the entry
C27_Witness ==
    \E r \in Slots :
       /\ Answered(requests[r])
       /\ requests[r].cacheRead = "unreadable"
       /\ requests[r].calls = << "extractAudio", "orchestrateTranscription" >>
       /\ requests[r].response.success
       /\ ~requests[r].response.fromCache
       /\ requests[r].put # NULL
       /\ requests[r].put.existed
       /\ ~requests[r].put.threw
       /\ loadCache(cacheDir, "fp1") # NULL

\* C28: a request whose saveCache threw is answered with status 200 and
\* with the responseData of its orchestration result, the one it is
\* answered with when saveCache returns.
C28_PutFailureNotFatal ==
    \A r \in Slots :
       (requests[r].put # NULL /\ requests[r].put.threw)
          => /\ Answered(requests[r])
             /\ requests[r].response =
                   [status |-> 200] @@ responseData(requests[r].body, requests[r].result)

\* the first write of saveCache threw: nothing is stored and the request
\* was answered with its transcript
C28_Witness ==
    \E r \in Slots :
       /\ requests[r].put # NULL
       /\ requests[r].put.threw
       /\ ~isCached(cacheDir, requests[r].put.hash)
       /\ requests[r].response.status = 200
       /\ requests[r].response.success
       /\ requests[r].response.raw.text = "bonjour"
       /\ requests[r].response.formatted.srtFile = [text |-> << "1", "bonjour" >>]

\* the last name pushed on a list of attempted strategies
LastAttempted(attempted) == attempted[Len(attempted)]

\* C35: whenever orchestrateTranscription returns, success is true, the
\* transcript and its report are not null and are those of the tier attempted
\* last, and fallback.usedStrategy is defined and is the last name of
\* fallback.strategiesAttempted; no returned result has success = FALSE, so
\* the route never answers with its 500 kept for a result without transcript.
C35_ReturnedResultIsComplete ==
    /\ pc = "done" =>
         /\ result.success
         /\ result.transcription # NULL
         /\ result.transcriptionQuality # NULL
         /\ result.fallback.strategiesAttempted # << >>
         /\ lastReturned.tier = Len(result.fallback.strategiesAttempted)
         /\ result.transcription = lastReturned.transcription
         /\ result.transcriptionQuality =
                analyzeTranscriptionQuality(lastReturned.transcription)
         /\ result.fallback.usedStrategy # "undefined"
         /\ result.fallback.usedStrategy =
                LastAttempted(result.fallback.strategiesAttempted)
         /\ result.fallback.usedStrategy = strategies[lastReturned.tier].name
    /\ (pc = "done" /\ response # NULL) => response.status = 200

\* a run returned after a tier had thrown and a later tier had returned
C35_Witness ==
    /\ pc = "done"
    /\ response # NULL
    /\ Len(result.fallback.strategiesAttempted) >= 2
    /\ \E n \in 1..Len(trace) :
          trace[n].fn = "transcribeAudio" /\ trace[n].phase = "throw"

\* the last settled recognition call of the history
LastSettled ==
    LET ev == EventsOf(trace, "transcribeAudio")
        settled == { n \in 1..Len(ev) : ev[n].phase # "call" }
    IN  IF settled = {} THEN NULL
        ELSE ev[CHOOSE n \in settled : \A m \in settled : m <= n]

\* the last candidate has been attempted and its recognition call threw
LastTierThrew ==
    /\ strategies # << >>
    /\ Len(attemptedStrategies) = Len(strategies)
    /\ LastSettled # NULL
    /\ LastSettled.phase = "throw"
    /\ pc # "transcribeAudio"

\* C36: when an earlier tier returned a transcript judged unacceptable and
\* the recognition call of the last tier throws, the run fails with that
\* error and the earlier transcript is not given to the caller; a transcript
\* judged unacceptable is returned only when the last tier itself returned.
C36_LastTierThrowDropsEarlierTranscript ==
    /\ (LastTierThrew /\ lastReturned # NULL) =>
         /\ pc = "failed"
         /\ error = [message |-> "RecognitionFailure"]
         /\ ~result.success
         /\ result.transcription = NULL
         /\ response # NULL =>
              response = [ status  |-> 500,
                           success |-> FALSE,
                           error   |-> "PipelineError",
                           details |-> "RecognitionFailure" ]
    /\ ( /\ pc = "done"
         /\ result.transcriptionQuality # NULL
         /\ ~result.transcriptionQuality.isAcceptable ) =>
         /\ lastReturned.tier = Len(strategies)
         /\ LastSettled.phase = "return"

\* an earlier tier returned an unacceptable transcript, the last tier threw,
\* and the route has answered
C36_Witness ==
    /\ LastTierThrew
    /\ lastReturned # NULL
    /\ lastReturned.tier < Len(strategies)
    /\ ~analyzeTranscriptionQuality(lastReturned.transcription).isAcceptable
    /\ response # NULL

\* strats is the catalogue from some position on, up to its last entry
IsCatalogueSuffix(strats) ==
    \E k \in 1..Len(WHISPER_FALLBACK_STRATEGIES) :
       strats = SubSeq(WHISPER_FALLBACK_STRATEGIES, k,
                       Len(WHISPER_FALLBACK_STRATEGIES))

\* C37: with fallback enabled, whatever the audio score in 0..100, the
\* result of the floor filter is not empty, so that the full catalogue is
\* never substituted for it, and the candidate list is a non-empty contiguous
\* suffix of the catalogue that ends with LARGE_ULTIMATE, whose floor is 0;
\* the candidate list of a run with fallback is such a list.
C37_CandidatesAreCatalogueSuffix ==
    /\ pc = "checkAudioQuality" =>
         \A score \in 0..100, modelSize \in ModelSizes :
            LET filtered == FilterByFloor(WHISPER_FALLBACK_STRATEGIES, score)
                strats == BuildStrategies(TRUE, score, modelSize)
            IN  /\ filtered # << >>
                /\ strats = filtered
                /\ IsCatalogueSuffix(strats)
                /\ strats[Len(strats)].name = "LARGE_ULTIMATE"
                /\ strats[Len(strats)].minAudioQuality = 0
    /\ ( StrategiesBuilt /\ options.useFallback ) =>
         /\ strategies =
               FilterByFloor(WHISPER_FALLBACK_STRATEGIES,
                             audioQualityReport.qualityScore)
         /\ strategies # << >>
         /\ IsCatalogueSuffix(strategies)
         /\ strategies[Len(strategies)].name = "LARGE_ULTIMATE"
         /\ strategies[Len(strategies)].minAudioQuality = 0

\* a run with fallback on audio of score 0 has LARGE_ULTIMATE as its only
\* candidate
C37_Witness ==
    /\ options.useFallback
    /\ pc = "transcribeAudio"
    /\ audioQualityReport.qualityScore = 0
    /\ StrategyNames(strategies) = << "LARGE_ULTIMATE" >>

\* C38: in a run of the orchestrator the enhancer is invoked exactly when
\* autoEnhance is enabled and the audio score is below 80, at most once, and
\* its preset is then STANDARD or AGGRESSIVE, never LIGHT: every issue of the
\* audio report has severity HIGH or CRITICAL, and a score below 80 comes
\* with at least one issue.
C38_OrchestratedPresetNeverLight ==
    audioQualityReport # NULL =>
       LET issues == audioQualityReport.issues
           enhancerCalls == CallsOf("enhanceAudio")
       IN  /\ enhancerCalls # {} <=>
                 ( options.autoEnhance /\ audioQualityReport.qualityScore < 80 )
           /\ Cardinality(enhancerCalls) <= 1
           /\ \A n \in enhancerCalls :
                 /\ trace[n].arg # "LIGHT"
                 /\ trace[n].arg \in {"STANDARD", "AGGRESSIVE"}
                 /\ trace[n].arg = SelectPreset(audioQualityReport)
           /\ \A n \in 1..Len(issues) :
                 issues[n].severity \in {"HIGH", "CRITICAL"}
           /\ audioQualityReport.qualityScore < 80 => issues # << >>
           /\ result.enhancement # NULL =>
                 result.enhancement.preset \in {"STANDARD", "AGGRESSIVE"}

\* the enhancer was invoked with STANDARD on audio whose score is at least 60
C38_Witness ==
    /\ audioQualityReport # NULL
    /\ audioQualityReport.qualityScore \in 60..79
    /\ result.enhancement # NULL
    /\ result.enhancement.preset = "STANDARD"
    /\ \E n \in CallsOf("enhanceAudio") : trace[n].arg = "STANDARD"

\* the audio files a run can create: the output of enhanceAudio and the
\* output of removeSilence
CreatedByRun ==
    { EnhancedName(AudioPath), NoSilenceName(EnhancedName(AudioPath)) }

\* C34: once a run has ended, by returning or by throwing, no enhanced audio
\* file that it created exists any more.
C34_EnhancedFileReclaimed ==
    pc \in {"done", "failed"} => files \cap CreatedByRun = {}

\* C39: when saveCache(fp, p1, srt1) has returned and is followed at once by
\* a saveCache(fp, p2, no subtitles), the subtitle file of fp is left as the
\* first call wrote it, and a loadCache(fp) that follows returns the payload
\* p2 together with the subtitles srt1.
C39_PutWithoutSubtitlesKeepsOldOnes ==
    [][ ( /\ Len(cacheCalls) = 2
          /\ cacheCalls[1].op = "saveCache"
          /\ cacheCalls[2].op = "saveCache"
          /\ cacheCalls[1].hash = cacheCalls[2].hash
          /\ ~cacheCalls[1].threw
          /\ cacheCalls[1].srtContent # NULL
          /\ cacheCalls[2].srtContent = NULL )
        => /\ ~cacheCalls[2].threw
           /\ existsSync(cacheDir, srtPath(cacheCalls[2].hash))
           /\ cacheDir[srtPath(cacheCalls[2].hash)] = cacheCalls[1].srtContent
           /\ LoadCache(cacheCalls[2].hash)
                 => ( /\ loaded' # NULL
                      /\ loaded'.transcription = cacheCalls[2].transcriptionData
                      /\ loaded'.transcription # cacheCalls[1].transcriptionData
                      /\ loaded'.srt = cacheCalls[1].srtContent ) ]_vars

\* fp2 was loaded after a save without subtitles: the entry has the payload
\* of that save and the subtitles of an earlier one
C39_Witness ==
    /\ Len(cacheCalls) = 2
    /\ cacheCalls[1].op = "saveCache"
    /\ cacheCalls[1].hash = "fp2"
    /\ cacheCalls[1].srtContent = NULL
    /\ cacheCalls[2] = [op |-> "loadCache", hash |-> "fp2"]
    /\ loaded # NULL
    /\ loaded.transcription = cacheCalls[1].transcriptionData
    /\ loaded.srt = [text |-> << "1", "bonjour" >>]

\* what isCached and loadCache answer for a fingerprint, and its files
EntryOf(dir, hash) ==
    [ has   |-> isCached(dir, hash),
      get   |-> loadCache(dir, hash),
      files |-> [ path \in DOMAIN dir \cap
                           {jsonPath(hash), srtPath(hash), metaPath(hash)}
                    |-> dir[path] ] ]

\* C32: a saveCache(fp1, ...), whether it returns or throws, and a
\* deleteCache(fp1) leave every other fingerprint fp2 as it was: isCached(fp2)
\* and loadCache(fp2) answer after the call what they answered before it,
\* whatever calls on fp1 and fp2 came before.
C32_OtherFingerprintsUntouched ==
    [][ \A fp1 \in Fingerprints :
           ( /\ cacheCalls' # << >>
             /\ LastCall'.op \in {"saveCache", "deleteCache"}
             /\ LastCall'.hash = fp1 )
           => \A fp2 \in Fingerprints \ {fp1} :
                 /\ isCached(cacheDir', fp2) = isCached(cacheDir, fp2)
                 /\ loadCache(cacheDir', fp2) = loadCache(cacheDir, fp2)
                 /\ EntryOf(cacheDir', fp2) = EntryOf(cacheDir, fp2) ]_vars

\* fp1 was saved and then deleted while fp2 had a readable entry
C32_Witness ==
    /\ Len(cacheCalls) = 2
    /\ cacheCalls[1].op = "saveCache"
    /\ cacheCalls[1].hash = "fp1"
    /\ ~cacheCalls[1].threw
    /\ cacheCalls[2] = [op |-> "deleteCache", hash |-> "fp1", returned |-> TRUE]
    /\ isCached(cacheDir, "fp2")
    /\ loadCache(cacheDir, "fp2") # NULL
    /\ ~isCached(cacheDir, "fp1")

\* the limit of a call of cleanOldCaches, in days
LimitOf(maxAgeDays) == IF maxAgeDays = NULL THEN 30 ELSE maxAgeDays.days

\* the metadata file of the fingerprint can be read
HasMetadata(dir, hash) ==
    /\ existsSync(dir, metaPath(hash))
    /\ ~JSONparseThrows(dir[metaPath(hash)])

\* the age in days, at the given time, of the entry of a fingerprint that
\* has metadata
AgeOf(dir, time, hash) ==
    time - Date(JSONparse(dir[metaPath(hash)]).createdAt)

\* C31: cleanOldCaches(days), days being 30 when left out, returns; it
\* removes every entry whose age is strictly greater than days, leaves every
\* entry whose age is at most days present and unchanged, and returns the
\* number of the entries it removed.
C31_PurgeRemovesOldEntries ==
    [][ \A maxAgeDays \in MaxAges :
           CleanOldCaches(maxAgeDays)
              => /\ ~LastCall'.threw
                 /\ \A hash \in Fingerprints :
                       ( isCached(cacheDir, hash) /\ HasMetadata(cacheDir, hash) )
                       => IF AgeOf(cacheDir, now, hash) > LimitOf(maxAgeDays)
                          THEN /\ ~isCached(cacheDir', hash)
                               /\ loadCache(cacheDir', hash) = NULL
                          ELSE EntryOf(cacheDir', hash) = EntryOf(cacheDir, hash)
                 /\ LastCall'.returned =
                       Cardinality({ hash \in Fingerprints :
                                        /\ isCached(cacheDir, hash)
                                        /\ ~isCached(cacheDir', hash) }) ]_vars

\* the request went through the whole pipeline and called saveCache
ProcessedInFull(request) ==
    /\ "orchestrateTranscription" \in { request.calls[n] : n \in 1..Len(request.calls) }
    /\ request.result # NULL
    /\ request.put # NULL
    /\ request.put.hash = request.fileHash.hex
    /\ ~request.response.fromCache

\* C33: requests for one fingerprint are not deduplicated.  A request with
\* the cache in use whose step 0 found no entry is on its way through the
\* pipeline or has been through it, whatever the other request in flight is
\* doing: when it is answered with success it has called the orchestrator
\* itself and has called saveCache for its fingerprint, also when the other
\* request missed the same fingerprint and has stored its entry already.
C33_MissIsProcessedInFull ==
    \A r \in Slots :
       LET request == requests[r]
       IN  ( request.cacheRead = "miss" /\ request.fileHash # NULL ) =>
              /\ request.pc \in {"extractAudio", "orchestrateTranscription",
                                 "responded"}
              /\ ( request.pc = "responded" /\ request.response.status = 200 )
                    => ProcessedInFull(request)

\* two requests for the same fingerprint both missed the cache, both called
\* the orchestrator and both called saveCache, the later one on the entry
\* that the earlier one had stored
C33_Witness ==
    /\ \A r \in Slots :
          /\ Answered(requests[r])
          /\ requests[r].body.useCache
          /\ requests[r].cacheRead = "miss"
          /\ requests[r].response.status = 200
          /\ ProcessedInFull(requests[r])
          /\ ~requests[r].put.threw
    /\ requests[1].fileHash = requests[2].fileHash
    /\ \E r \in Slots : requests[r].put.existed /\ requests[r].put.readable

\* the option sets of a request body that the handler reads
BodyOptions ==
    [ modelSize        : {"base", "large-v3"},
      language         : {"", "fr"},
      autoEnhance      : BOOLEAN,
      useFallback      : BOOLEAN,
      useGPTCorrection : BOOLEAN,
      saveSRT          : BOOLEAN ]

\* the files that have the bytes of the file of the request
SameBytes(request) ==
    { filePath \in DOMAIN Uploads : Uploads[filePath] = BytesOf(request) }

\* C40: what step 0 does with a request depends on the bytes of its file
\* and on the cache directory only.  When computeHash resolves for a request,
\* a request for any file with the same bytes and with any modelSize,
\* language, autoEnhance, useFallback, useGPTCorrection and saveSRT would
\* read the same entry, count it as a hit or not in the same way, and on a
\* hit be given the same response: the payload stored for the fingerprint,
\* with the options of the request that stored it.
C40_HitDependsOnBytesOnly ==
    [][ \A r \in Slots :
           ComputeHashResolves(r) =>
              LET hash == sha256(BytesOf(requests[r])) IN
              /\ requests'[r].fileHash = [hex |-> hash]
              /\ requests'[r].cacheRead = "hit"
                    <=> loadCache(cacheDir, hash) # NULL
              /\ requests'[r].cacheRead = "hit"
                    => /\ requests'[r].response =
                             [status |-> 200] @@ FromCache(loadCache(cacheDir, hash))
                       /\ requests'[r].calls = << >>
              /\ \A filePath \in SameBytes(requests[r]), opts \in BodyOptions :
                    LET other == [ requests[r] EXCEPT
                                     !.body = [filePath |-> filePath,
                                               useCache |-> TRUE] @@ opts,
                                     !.fileHash = [hex |-> sha256(Uploads[filePath])] ]
                        next == Step0(other, cacheDir)
                    IN  /\ other.fileHash = requests'[r].fileHash
                        /\ next.cacheRead = requests'[r].cacheRead
                        /\ next.cacheRead = "hit"
                              => next.response = requests'[r].response ]_vars

\* a request that asks for the model "base" was answered from the cache with
\* the payload that a request for the model "large-v3" had stored
C40_Witness ==
    \E r \in Slots :
       /\ Answered(requests[r])
       /\ requests[r].body.useCache
       /\ requests[r].body.modelSize = "base"
       /\ requests[r].cacheRead = "hit"
       /\ requests[r].response.fromCache
       /\ requests[r].response.input.modelSize = "large-v3"
       /\ requests[r].response.cacheMetadata.modelSize = "large-v3"

====
